---- MODULE Spec2Model ----
(***************************************************************************)
(* Lab-Report-Intelligence-Agent: the extraction pass of parser.py         *)
(* (pdfplumber_parse) and the reconciliation pass of agent.py              *)
(* (_normalize_name, find_benchmark, _parse_ref_range,                     *)
(* compare_with_benchmarks).                                               *)
(*                                                                         *)
(* Strings are sequences of one-character strings, so that every regular   *)
(* expression and every str method of the source is computed character by  *)
(* character.  Numbers are fixed-point integers with FracDigits decimals.  *)
(***************************************************************************)
EXTENDS Integers, Sequences, FiniteSets, TLC

VARIABLES
    pc,               \* position of the running function
    name,             \* _normalize_name: the argument
    n1,               \* _normalize_name(name)
    n2,               \* _normalize_name(n1)
    benchmarks,       \* the benchmark list (find_benchmark, compare_with_benchmarks)
    found,            \* find_benchmark: looked-up name -> index of the entry returned (0: None)
    ref_text,         \* _parse_ref_range: the argument
    range,            \* _parse_ref_range(ref_text): <<low, high>>
    extracted_tests,  \* compare_with_benchmarks: the argument
    compared,         \* compare_with_benchmarks: the list "results" built so far
    pages,            \* pdfplumber_parse: the pages of the PDF, each with its tables and its text
    page_no,          \* pdfplumber_parse: index of the page the table pass is at
    results,          \* pdfplumber_parse: the candidates appended so far
    seen,             \* pdfplumber_parse: the keys of the candidates appended so far
    lines,            \* pdfplumber_parse: the lines of the cleaned text
    merged,           \* pdfplumber_parse: the lines after the multi-line merge
    line_no,          \* pdfplumber_parse: index of the merged line the text pass is at
    returned,         \* pdfplumber_parse: the list returned
    origin,           \* history: the row or line each member of results was built from
    encountered,      \* history: every candidate that got as far as the seen test
    examined,         \* history: the tables whose rows the table pass has read
    failures,         \* history: the exceptions raised so far, as <<pass, raising step>>
    db_file,          \* benchmark_db.json: what open and json.load find
    loaded,           \* load_benchmark_db: the value returned
    runs,             \* concurrent runs: run -> its document, position and lists
    frames,           \* concurrent runs: frame -> the results and seen of one pdfplumber_parse call
    users,            \* users.db: the rows of table users, in id order
    sessions,         \* users.db: the rows of table sessions
    now,              \* datetime.now(), in days
    locked,           \* users.db: a connection that was left open holds the write lock
    logins,           \* history: the user id of every successful login, in order
    revoked,          \* history: the tokens given out that logout was called with
    call,             \* history: the last call, with its arguments
    result,           \* the value the last call returned
    stats,            \* get_summary_stats: the dict returned
    session_state,    \* app.py: st.session_state of the browser session
    query_params,     \* app.py: st.query_params["session"], empty when absent
    rendered,         \* history: the part of the page the last script run got to, and for whom
    rerun             \* app.py: a script run is due (page load or st.rerun())

normalizeVars == <<name, n1, n2>>
resolveVars == <<benchmarks, found>>
rangeVars == <<ref_text, range>>
compareVars == <<extracted_tests, compared>>
passVars == <<results, seen, origin, encountered, examined>>
parseVars == <<pages, page_no, lines, merged, line_no, returned, passVars, failures>>
loadVars == <<db_file, loaded>>
\* the variables that the functions above never touch
concurrentVars == <<runs, frames>>
authVars == <<users, sessions, now, locked, logins, revoked, call, result>>
summaryVars == <<stats>>
appVars == <<session_state, query_params, rendered, rerun>>
lateVars == <<summaryVars, appVars>>
restVars == <<loadVars, concurrentVars, authVars, lateVars>>
vars == <<pc, normalizeVars, resolveVars, rangeVars, compareVars, parseVars, restVars>>

(***************************************************************************)
(* Characters and str methods                                              *)
(***************************************************************************)
\* None where a string is expected (an empty table cell, an absent text): a
\* one-element sequence that is no character string.  It also marks the
\* variables of the functions that are not running.
None == <<"None">>

\* an optional number: <<>> for None, <<v>> for the float v
NoNum == <<>>
Num(v) == <<v>>
IsNum(x) == x # <<>>
Val(x) == x[1]

Chars(s) == [i \in 1..Len(s) |-> SubSeq(s, i, i)]

UpperLetters == Chars("ABCDEFGHIJKLMNOPQRSTUVWXYZ")
LowerLetters == Chars("abcdefghijklmnopqrstuvwxyz")
Digits == {"0", "1", "2", "3", "4", "5", "6", "7", "8", "9"}

LetterSet(ls) == { ls[i] : i \in 1..Len(ls) }
IsUpper(c) == c \in LetterSet(UpperLetters)
IsLetter(c) == c \in LetterSet(UpperLetters) \cup LetterSet(LowerLetters)
IsDigit(c) == c \in Digits
\* \s of the re module (the ASCII members that occur in extracted text)
IsSpace(c) == c \in {" ", "\t", "\n"}

LowerChar(c) ==
    IF IsUpper(c) THEN LowerLetters[CHOOSE i \in 1..26 : UpperLetters[i] = c] ELSE c

\* str.lower()
Lower(s) == [i \in 1..Len(s) |-> LowerChar(s[i])]

RECURSIVE LStrip(_)
LStrip(s) == IF s # <<>> /\ IsSpace(Head(s)) THEN LStrip(Tail(s)) ELSE s

RECURSIVE RStrip(_)
RStrip(s) ==
    IF s # <<>> /\ IsSpace(s[Len(s)]) THEN RStrip(SubSeq(s, 1, Len(s) - 1)) ELSE s

\* str.strip()
Strip(s) == RStrip(LStrip(s))

\* s[i:] and s[:i] with 0-based i
Drop(s, i) == SubSeq(s, i + 1, Len(s))
Take(s, i) == SubSeq(s, 1, i)

StartsWith(s, p) == Len(s) >= Len(p) /\ Take(s, Len(p)) = p

\* p in s
Contains(s, p) == \E i \in 0..(Len(s) - Len(p)) : SubSeq(s, i + 1, i + Len(p)) = p

\* re.sub(r'\s+', ' ', s)
RECURSIVE CollapseSpaces(_)
CollapseSpaces(s) ==
    IF s = <<>> THEN <<>>
    ELSE IF IsSpace(Head(s)) THEN <<" ">> \o CollapseSpaces(LStrip(s))
    ELSE <<Head(s)>> \o CollapseSpaces(Tail(s))

(***************************************************************************)
(* agent.py: _normalize_name                                               *)
(***************************************************************************)
\* the character class [.\-_/,\(\)]
NamePunct == {".", "-", "_", "/", ",", "(", ")"}

PunctToSpace(s) == [i \in 1..Len(s) |-> IF s[i] \in NamePunct THEN " " ELSE s[i]]

\* re.sub(r'^total\s+', '', n)
StripTotalPrefix(n) ==
    IF StartsWith(n, Chars("total")) /\ Len(n) >= 6 /\ IsSpace(n[6])
    THEN LStrip(Drop(n, 5))
    ELSE n

\* a slip: the second .strip() (after the whitespace collapse) is left out
NormalizeNoRestrip(nm) ==
    StripTotalPrefix(CollapseSpaces(PunctToSpace(Strip(Lower(nm)))))

_normalize_name(nm) ==
    StripTotalPrefix(Strip(CollapseSpaces(PunctToSpace(Strip(Lower(nm))))))

(***************************************************************************)
(* agent.py: find_benchmark                                                *)
(*                                                                         *)
(* A benchmark entry is a record [test_name, aliases, low, high, category, *)
(* description]; aliases is a sequence of strings (bench.get("aliases",    *)
(* [])), low and high are optional numbers.  The entry returned is given   *)
(* by its 1-based index in the list, 0 for None.                           *)
(***************************************************************************)
\* index of the first entry of benchs that satisfies Hit, 0 when none does:
\* "for bench in benchmarks: if <Hit>: return bench"
FirstHit(benchs, Hit(_)) ==
    IF \E i \in 1..Len(benchs) : Hit(benchs[i])
    THEN CHOOSE i \in 1..Len(benchs) :
            /\ Hit(benchs[i])
            /\ \A j \in 1..(i - 1) : ~Hit(benchs[j])
    ELSE 0

AliasSet(bench) == { bench.aliases[k] : k \in 1..Len(bench.aliases) }

\* Pass 1: exact match on name or alias
Pass1Hit(test_lower, bench) ==
    \/ Lower(bench.test_name) = test_lower
    \/ test_lower \in { Lower(a) : a \in AliasSet(bench) }

\* Pass 2: normalized match
Pass2Hit(test_norm, bench) ==
    \/ _normalize_name(bench.test_name) = test_norm
    \/ \E a \in AliasSet(bench) : _normalize_name(a) = test_norm

\* Pass 3: fuzzy substring match
\* a slip: the fuzzy pass skips a name whose normalized form is empty
Pass3HitNonEmpty(test_norm, bench) ==
    /\ test_norm # <<>>
    /\ LET bn == _normalize_name(bench.test_name) IN
       \/ Contains(test_norm, bn) \/ Contains(bn, test_norm)
       \/ \E a \in AliasSet(bench) :
             LET an == _normalize_name(a) IN
             Contains(test_norm, an) \/ Contains(an, test_norm)

Pass3Hit(test_norm, bench) ==
    LET bn == _normalize_name(bench.test_name) IN
    \/ Contains(test_norm, bn) \/ Contains(bn, test_norm)
    \/ \E a \in AliasSet(bench) :
          LET an == _normalize_name(a) IN
          Contains(test_norm, an) \/ Contains(an, test_norm)

\* a slip: one loop over the list that tries the three tests on each entry in
\* turn, instead of three loops
FindBenchmarkOneLoop(test_name, benchs) ==
    LET test_lower == Strip(Lower(test_name))
        test_norm == _normalize_name(test_name)
        AnyPass(b) == \/ Pass1Hit(test_lower, b)
                  \/ Pass2Hit(test_norm, b)
                  \/ Pass3Hit(test_norm, b)
    IN  FirstHit(benchs, AnyPass)

\* a slip: each pass keeps the last entry that matches instead of returning
\* at the first
FindBenchmarkLastHit(test_name, benchs) ==
    LET test_lower == Strip(Lower(test_name))
        test_norm == _normalize_name(test_name)
        h1 == { i \in 1..Len(benchs) : Pass1Hit(test_lower, benchs[i]) }
        h2 == { i \in 1..Len(benchs) : Pass2Hit(test_norm, benchs[i]) }
        h3 == { i \in 1..Len(benchs) : Pass3Hit(test_norm, benchs[i]) }
        Last(h) == CHOOSE i \in h : \A j \in h : j <= i
    IN  IF h1 # {} THEN Last(h1) ELSE IF h2 # {} THEN Last(h2)
        ELSE IF h3 # {} THEN Last(h3) ELSE 0

find_benchmark(test_name, benchs) ==
    LET test_lower == Strip(Lower(test_name))
        test_norm == _normalize_name(test_name)
        P1(b) == Pass1Hit(test_lower, b)
        P2(b) == Pass2Hit(test_norm, b)
        P3(b) == Pass3Hit(test_norm, b)
        r1 == FirstHit(benchs, P1)
        r2 == FirstHit(benchs, P2)
        r3 == FirstHit(benchs, P3)
    IN  IF r1 # 0 THEN r1 ELSE IF r2 # 0 THEN r2 ELSE r3

(***************************************************************************)
(* Numbers.  float(token) of a token matched by \d+\.?\d* is kept as the   *)
(* integer token * 10^FracDigits (tokens carry at most FracDigits          *)
(* decimals).                                                              *)
(***************************************************************************)
FracDigits == 2

RECURSIVE Pow10(_)
Pow10(n) == IF n = 0 THEN 1 ELSE 10 * Pow10(n - 1)

Scale == Pow10(FracDigits)

DigitVal(c) == CHOOSE d \in 0..9 : Chars("0123456789")[d + 1] = c

RECURSIVE IntOf(_)
IntOf(ds) ==
    IF ds = <<>> THEN 0
    ELSE 10 * IntOf(SubSeq(ds, 1, Len(ds) - 1)) + DigitVal(ds[Len(ds)])

\* float(tok)
ParseFloat(tok) ==
    LET dot == IF \E i \in 1..Len(tok) : tok[i] = "."
               THEN CHOOSE i \in 1..Len(tok) : tok[i] = "."
               ELSE Len(tok) + 1
        ip == Take(tok, dot - 1)
        fp == Drop(tok, dot)
        fpad == Take(fp \o [i \in 1..FracDigits |-> "0"], FracDigits)
    IN  IntOf(ip) * Scale + IntOf(fpad)

(***************************************************************************)
(* Pieces shared by the regular expressions of agent.py and parser.py.     *)
(* A position p is the 1-based index of the next character to be read; an  *)
(* ...End operator gives the position after the longest run.               *)
(***************************************************************************)
\* U+2013 and U+2014, one character each
EnDash == "u2013"
EmDash == "u2014"

RECURSIVE DigitRunEnd(_, _)
DigitRunEnd(s, p) ==
    IF p <= Len(s) /\ IsDigit(s[p]) THEN DigitRunEnd(s, p + 1) ELSE p

RECURSIVE SpaceRunEnd(_, _)
SpaceRunEnd(s, p) ==
    IF p <= Len(s) /\ IsSpace(s[p]) THEN SpaceRunEnd(s, p + 1) ELSE p

RECURSIVE RunEnd(_, _, _)
RunEnd(s, p, chars) ==
    IF p <= Len(s) /\ s[p] \in chars THEN RunEnd(s, p + 1, chars) ELSE p

\* \d+\.?\d* at p, greedy: the position after it, p itself when there is no
\* digit at p
NumberEnd(s, p) ==
    LET a == DigitRunEnd(s, p)
        b == IF a <= Len(s) /\ s[a] = "." THEN a + 1 ELSE a
    IN  IF a = p THEN p ELSE DigitRunEnd(s, b)

\* s[p:q] with 1-based p and exclusive q
Slice(s, p, q) == SubSeq(s, p, q - 1)

\* the smallest p in 1..Len(s) with Ok(p), 0 when there is none: re.search
\* tries the start positions from left to right
FirstPos(s, Ok(_)) ==
    IF \E p \in 1..Len(s) : Ok(p)
    THEN CHOOSE p \in 1..Len(s) : Ok(p) /\ \A q \in 1..(p - 1) : ~Ok(q)
    ELSE 0

(***************************************************************************)
(* agent.py: _parse_ref_range                                              *)
(***************************************************************************)
\* (\d+\.?\d*)\s*[-–—]+\s*(\d+\.?\d*) tried at p: the positions
\* <<end of group 1, start of group 2, end of group 2>>, <<>> when it fails.
\* Each greedy piece is followed by a character it cannot itself match, so
\* the longest run is the only one that can succeed.
RangeReAt(s, p, dashes) ==
    LET e1 == NumberEnd(s, p)
        d0 == SpaceRunEnd(s, e1)
        d1 == RunEnd(s, d0, dashes)
        s2 == SpaceRunEnd(s, d1)
        e2 == NumberEnd(s, s2)
    IN  IF e1 > p /\ d1 > d0 /\ e2 > s2 THEN <<e1, s2, e2>> ELSE <<>>

\* (?:<|[Uu]p\s*to)\s*(\d+\.?\d*) tried at p: <<start, end>> of the group
UpperReAt(s, p) ==
    LET afterUp == SpaceRunEnd(s, p + 2)
        kw == IF s[p] = "<" THEN p + 1
              ELSE IF /\ s[p] \in {"U", "u"}
                      /\ p + 1 <= Len(s) /\ s[p + 1] = "p"
                      /\ afterUp + 1 <= Len(s)
                      /\ s[afterUp] = "t" /\ s[afterUp + 1] = "o"
                   THEN afterUp + 2
                   ELSE 0
        g == SpaceRunEnd(s, kw)
        e == NumberEnd(s, g)
    IN  IF kw # 0 /\ e > g THEN <<g, e>> ELSE <<>>

\* >\s*(\d+\.?\d*) tried at p
LowerReAt(s, p) ==
    LET g == SpaceRunEnd(s, p + 1)
        e == NumberEnd(s, g)
    IN  IF s[p] = ">" /\ e > g THEN <<g, e>> ELSE <<>>

RefDashes == {"-", EnDash, EmDash}

\* a slip: the one-sided forms are tried before the range
ParseRefRangeBoundsFirst(text) ==
    IF text = None \/ text = <<>> THEN <<NoNum, NoNum>>
    ELSE
      LET s == Strip(text)
          IsRange(p) == RangeReAt(s, p, RefDashes) # <<>>
          IsUpperB(p) == UpperReAt(s, p) # <<>>
          IsLowerB(p) == LowerReAt(s, p) # <<>>
          pr == FirstPos(s, IsRange)
          pu == FirstPos(s, IsUpperB)
          pl == FirstPos(s, IsLowerB)
      IN  IF pu # 0 THEN
            LET m == UpperReAt(s, pu) IN <<NoNum, Num(ParseFloat(Slice(s, m[1], m[2])))>>
          ELSE IF pl # 0 THEN
            LET m == LowerReAt(s, pl) IN <<Num(ParseFloat(Slice(s, m[1], m[2]))), NoNum>>
          ELSE IF pr # 0 THEN
            LET m == RangeReAt(s, pr, RefDashes)
            IN  <<Num(ParseFloat(Slice(s, pr, m[1]))), Num(ParseFloat(Slice(s, m[2], m[3])))>>
          ELSE <<NoNum, NoNum>>

_parse_ref_range(text) ==
    IF text = None \/ text = <<>> THEN <<NoNum, NoNum>>
    ELSE
      LET s == Strip(text)
          IsRange(p) == RangeReAt(s, p, RefDashes) # <<>>
          IsUpperB(p) == UpperReAt(s, p) # <<>>
          IsLowerB(p) == LowerReAt(s, p) # <<>>
          pr == FirstPos(s, IsRange)
          pu == FirstPos(s, IsUpperB)
          pl == FirstPos(s, IsLowerB)
      IN  IF pr # 0 THEN
            LET m == RangeReAt(s, pr, RefDashes)
            IN  <<Num(ParseFloat(Slice(s, pr, m[1]))), Num(ParseFloat(Slice(s, m[2], m[3])))>>
          ELSE IF pu # 0 THEN
            LET m == UpperReAt(s, pu) IN <<NoNum, Num(ParseFloat(Slice(s, m[1], m[2])))>>
          ELSE IF pl # 0 THEN
            LET m == LowerReAt(s, pl) IN <<Num(ParseFloat(Slice(s, m[1], m[2]))), NoNum>>
          ELSE <<NoNum, NoNum>>

(***************************************************************************)
(* agent.py: compare_with_benchmarks                                       *)
(*                                                                         *)
(* An extracted test is a record [test_name, value, unit, ref_range_text]  *)
(* with an optional number as value.                                       *)
(***************************************************************************)
\* a slip: the bounds are taken as exclusive
StatusExclusive(value, low, high) ==
    IF IsNum(value) /\ IsNum(low) /\ IsNum(high) THEN
        IF Val(value) <= Val(low) THEN "LOW"
        ELSE IF Val(value) >= Val(high) THEN "HIGH"
        ELSE "NORMAL"
    ELSE IF IsNum(value) /\ IsNum(high) /\ ~IsNum(low) THEN
        IF Val(value) > Val(high) THEN "HIGH" ELSE "NORMAL"
    ELSE IF IsNum(value) /\ IsNum(low) /\ ~IsNum(high) THEN
        IF Val(value) < Val(low) THEN "LOW" ELSE "NORMAL"
    ELSE "NORMAL"

\* a slip: a test without usable bounds gets the status the "unknown" counter
\* of get_summary_stats waits for
StatusUnknown(value, low, high) ==
    IF IsNum(value) /\ IsNum(low) /\ IsNum(high) THEN
        IF Val(value) < Val(low) THEN "LOW"
        ELSE IF Val(value) > Val(high) THEN "HIGH"
        ELSE "NORMAL"
    ELSE IF IsNum(value) /\ IsNum(high) /\ ~IsNum(low) THEN
        IF Val(value) > Val(high) THEN "HIGH" ELSE "NORMAL"
    ELSE IF IsNum(value) /\ IsNum(low) /\ ~IsNum(high) THEN
        IF Val(value) < Val(low) THEN "LOW" ELSE "NORMAL"
    ELSE "UNKNOWN"

\* a slip: the two elif branches for a single bound are missing
StatusBothBoundsOnly(value, low, high) ==
    IF IsNum(value) /\ IsNum(low) /\ IsNum(high) THEN
        IF Val(value) < Val(low) THEN "LOW"
        ELSE IF Val(value) > Val(high) THEN "HIGH"
        ELSE "NORMAL"
    ELSE "NORMAL"

\* the if / elif chain that sets enriched["status"]
Status(value, low, high) ==
    IF IsNum(value) /\ IsNum(low) /\ IsNum(high) THEN
        IF Val(value) < Val(low) THEN "LOW"
        ELSE IF Val(value) > Val(high) THEN "HIGH"
        ELSE "NORMAL"
    ELSE IF IsNum(value) /\ IsNum(high) /\ ~IsNum(low) THEN
        IF Val(value) > Val(high) THEN "HIGH" ELSE "NORMAL"
    ELSE IF IsNum(value) /\ IsNum(low) /\ ~IsNum(high) THEN
        IF Val(value) < Val(low) THEN "LOW" ELSE "NORMAL"
    ELSE "NORMAL"

\* "if ref_text": neither None nor the empty string
Truthy(text) == text # None /\ text # <<>>

\* a slip: the reference text is parsed when the entry found has no bounds
EnrichRefWhenNoBounds(test, benchs) ==
    LET b == find_benchmark(test.test_name, benchs)
        parsed == _parse_ref_range(test.ref_range_text)
        bare == b # 0 /\ ~IsNum(benchs[b].low) /\ ~IsNum(benchs[b].high)
        useRef == (b = 0 \/ bare) /\ Truthy(test.ref_range_text) /\ IsNum(test.value)
        low == IF useRef THEN parsed[1] ELSE IF b # 0 THEN benchs[b].low ELSE NoNum
        high == IF useRef THEN parsed[2] ELSE IF b # 0 THEN benchs[b].high ELSE NoNum
    IN  [ test_name      |-> test.test_name,
          value          |-> test.value,
          unit           |-> test.unit,
          ref_range_text |-> test.ref_range_text,
          status         |-> Status(test.value, low, high),
          benchmark      |-> IF b # 0 THEN benchs[b].test_name ELSE None,
          benchmark_low  |-> low,
          benchmark_high |-> high,
          category       |-> IF b # 0 THEN benchs[b].category ELSE "Uncategorized",
          description    |-> IF b # 0 THEN benchs[b].description ELSE "" ]

\* a slip: "elif ref_text:" without the test of the value
EnrichRefWithoutValue(test, benchs) ==
    LET b == find_benchmark(test.test_name, benchs)
        parsed == _parse_ref_range(test.ref_range_text)
        useRef == b = 0 /\ Truthy(test.ref_range_text)
        low == IF b # 0 THEN benchs[b].low
               ELSE IF useRef THEN parsed[1] ELSE NoNum
        high == IF b # 0 THEN benchs[b].high
                ELSE IF useRef THEN parsed[2] ELSE NoNum
    IN  [ test_name      |-> test.test_name,
          value          |-> test.value,
          unit           |-> test.unit,
          ref_range_text |-> test.ref_range_text,
          status         |-> Status(test.value, low, high),
          benchmark      |-> IF b # 0 THEN benchs[b].test_name ELSE None,
          benchmark_low  |-> low,
          benchmark_high |-> high,
          category       |-> IF b # 0 THEN benchs[b].category ELSE "Uncategorized",
          description    |-> IF b # 0 THEN benchs[b].description ELSE "" ]

\* the body of the loop over extracted_tests: the enriched record of one test
Enrich(test, benchs) ==
    LET b == find_benchmark(test.test_name, benchs)
        parsed == _parse_ref_range(test.ref_range_text)
        useRef == b = 0 /\ Truthy(test.ref_range_text) /\ IsNum(test.value)
        low == IF b # 0 THEN benchs[b].low
               ELSE IF useRef THEN parsed[1] ELSE NoNum
        high == IF b # 0 THEN benchs[b].high
                ELSE IF useRef THEN parsed[2] ELSE NoNum
    IN  [ test_name      |-> test.test_name,
          value          |-> test.value,
          unit           |-> test.unit,
          ref_range_text |-> test.ref_range_text,
          status         |-> Status(test.value, low, high),
          benchmark      |-> IF b # 0 THEN benchs[b].test_name ELSE None,
          benchmark_low  |-> low,
          benchmark_high |-> high,
          category       |-> IF b # 0 THEN benchs[b].category ELSE "Uncategorized",
          description    |-> IF b # 0 THEN benchs[b].description ELSE "" ]

(***************************************************************************)
(* parser.py: KNOWN_UNITS, SKIP_PATTERNS, INVALID_NAMES, _should_skip      *)
(***************************************************************************)
KNOWN_UNITS ==
    << Chars("million/uL"), Chars("million/cumm"),
       Chars("mill/cumm"), Chars("mil/cmm"), Chars("mil/cumm"),
       Chars("cells/uL"), Chars("cells/cumm"),
       Chars("thou/uL"), Chars("thou/cumm"),
       Chars("x10^3/uL"), Chars("x10^6/uL"),
       Chars("mIU/mL"), Chars("uIU/mL"), Chars("mIU/L"),
       Chars("mL/min/1.73m2"), Chars("mL/min"),
       Chars("mEq/L"), Chars("meq/l"),
       Chars("mmol/L"), Chars("umol/L"), Chars("nmol/L"), Chars("pmol/L"),
       Chars("mg/dL"), Chars("mg/dl"), Chars("mg/L"),
       Chars("g/dL"), Chars("g/dl"), Chars("g/L"),
       Chars("gm/dL"), Chars("gm/dl"), Chars("gm%"),
       Chars("ng/mL"), Chars("ng/ml"), Chars("ng/dL"), Chars("ng/dl"),
       Chars("pg/mL"), Chars("pg/ml"),
       Chars("ug/dL"), Chars("ug/dl"),
       Chars("U/L"), Chars("u/l"), Chars("IU/L"), Chars("IU/mL"),
       Chars("mm/hr"), Chars("mm/1st hr"),
       Chars("fL"), Chars("fl"), Chars("pg"),
       Chars("sec"), Chars("%") >>

\* the literal w at position p of s, compared without case (re.I)
LiteralAt(s, p, w) ==
    p + Len(w) - 1 <= Len(s) /\ Lower(SubSeq(s, p, p + Len(w) - 1)) = Lower(w)

\* the words of ws at p with \s* between them (re.I): the position after
\* them, 0 when they are not there
RECURSIVE WordsEnd(_, _, _)
WordsEnd(s, p, ws) ==
    IF ws = <<>> THEN p
    ELSE IF LiteralAt(s, p, Head(ws))
         THEN IF Len(ws) = 1 THEN p + Len(Head(ws))
              ELSE WordsEnd(s, SpaceRunEnd(s, p + Len(Head(ws))), Tail(ws))
         ELSE 0

W1(a) == <<Chars(a)>>
W2(a, b) == <<Chars(a), Chars(b)>>
W3(a, b, c) == <<Chars(a), Chars(b), Chars(c)>>

\* the alternatives of the four keyword patterns of SKIP_PATTERNS
SkipPrefixes1 ==
    { W1("page"), W1("report"), W1("date"), W1("time"), W1("patient"), W1("doctor"),
      W1("dr."), W1("lab"), W1("hospital"), W1("clinic"), W1("specimen"), W1("sample"),
      W1("collected"), W1("received"), W1("printed"), W1("barcode"), W1("accession") }
SkipHeaderLeft == { W2("test", "name"), W1("investigation"), W1("parameter"), W1("analyte") }
SkipHeaderRight == { W1("result"), W1("value"), W1("observed") }
SkipLabels == { W1("name"), W1("age"), W1("sex"), W1("gender"), W1("id"), W1("uhid"), W1("mrn") }
SkipPrefixes6 ==
    { W3("end", "of", "report"), W1("signature"), W1("pathologist"), W1("technician"),
      W1("verified"), W1("approved") }
SkipPrefixes7 ==
    { W1("note"), W1("disclaimer"), W2("this", "report"), W2("please", "consult"),
      W1("address"), W1("phone"), W1("nabl"), W1("iso") }

\* pat.search(line) for the pattern at index k of SKIP_PATTERNS; each is
\* anchored by ^\s*, so the match starts after the leading blanks
SkipPatternMatches(k, line) ==
    LET p == SpaceRunEnd(line, 1)
        Prefix(alts) == \E ws \in alts : WordsEnd(line, p, ws) # 0
    IN  CASE k = 1 -> Prefix(SkipPrefixes1)
          [] k = 2 -> \E l \in SkipHeaderLeft : \E r \in SkipHeaderRight :
                        LET e == WordsEnd(line, p, l)
                            g == SpaceRunEnd(line, e)
                        IN  e # 0 /\ g > e /\ WordsEnd(line, g, r) # 0
          [] k = 3 -> \E ws \in SkipLabels :
                        LET e == WordsEnd(line, p, ws)
                            g == SpaceRunEnd(line, e)
                        IN  e # 0 /\ g <= Len(line) /\ line[g] \in {":", "/"}
          [] k = 4 -> LET e == RunEnd(line, p, {"-", "=", "_", "*"})
                      IN  e - p >= 5 /\ SpaceRunEnd(line, e) = Len(line) + 1
          [] k = 5 -> p = Len(line) + 1
          [] k = 6 -> Prefix(SkipPrefixes6)
          [] k = 7 -> Prefix(SkipPrefixes7)

_should_skip(line) ==
    \/ Len(Strip(line)) < 3
    \/ \E k \in 1..7 : SkipPatternMatches(k, line)

INVALID_NAMES ==
    { Chars("test"), Chars("name"), Chars("result"), Chars("value"), Chars("unit"),
      Chars("reference"), Chars("range"), Chars("normal"), Chars("parameter"),
      Chars("investigation"), Chars("method"), Chars("remarks"), Chars("status") }

(***************************************************************************)
(* parser.py: LINE_PATTERNS                                                *)
(*                                                                         *)
(* Every pattern is anchored at the start of the line and begins with the  *)
(* lazy group name, so the regex engine tries the name ends from the       *)
(* shortest on and keeps the first one after which the rest of the pattern *)
(* matches.  The rest is made of greedy pieces, each followed by a piece   *)
(* that cannot begin with a character of the run before it, so only the    *)
(* longest run can succeed; the alternatives of the unit are tried in the  *)
(* order of KNOWN_UNITS.  The pieces are matched one after the other, each *)
(* operator handing the positions found so far to the next.  A match is    *)
(* the record of its groups, a group that did not take part being None;    *)
(* NoMatch when the pattern fails.                                         *)
(***************************************************************************)
NoMatch == [ name |-> None, value |-> None, unit |-> None, ref |-> None ]

\* [A-Za-z0-9\s\(\)\-\.\,/\']
IsNameChar(c) ==
    IsLetter(c) \/ IsDigit(c) \/ IsSpace(c) \/ c \in {"(", ")", "-", ".", ",", "/", "'"}

\* the ends e (the name is s[1..e-1]) of the names of at least minLen
\* characters
NameEnds(s, minLen) ==
    { e \in (minLen + 1)..(Len(s) + 1) :
        IsLetter(s[1]) /\ \A i \in 2..(e - 1) : IsNameChar(s[i]) }

\* the groups of a match: the name ends at e, the value is s[v0..v1-1], the
\* unit s[u0..u1-1] and the ref s[r0..r1-1]; u1 = 0 and r1 = 0 stand for a
\* group that did not take part
Groups(s, e, v0, v1, u0, u1, r0, r1) ==
    [ name  |-> Slice(s, 1, e),
      value |-> Slice(s, v0, v1),
      unit  |-> IF u1 = 0 THEN None ELSE Slice(s, u0, u1),
      ref   |-> IF r1 = 0 THEN None ELSE Slice(s, r0, r1) ]

\* the first of the alternatives fits (indices into KNOWN_UNITS) at p: the
\* position after it, 0 when there is none
FirstUnitEnd(p, fits) ==
    IF fits = {} THEN 0
    ELSE p + Len(KNOWN_UNITS[CHOOSE k \in fits : \A j \in fits : k <= j])

\* (?:UNIT_PATTERN) at p (re.I) with nothing required after it
PlainUnitEnd(s, p) ==
    FirstUnitEnd(p, { k \in 1..Len(KNOWN_UNITS) : LiteralAt(s, p, KNOWN_UNITS[k]) })

\* \d+\.?\d*\s*[-...]+\s*\d+\.?\d* at p: the position after it, 0 when it fails
RangeEndOf(hit) == IF hit = <<>> THEN 0 ELSE hit[3]
RangeEnd(s, p, dashes) == RangeEndOf(RangeReAt(s, p, dashes))

\* the optional (?:\s*(?:UNIT_PATTERN))? after a range that ends at r1
WithUnitEnd(r1, t1) == IF r1 # 0 /\ t1 # 0 THEN t1 ELSE r1
RangeUnitEnd(s, r1) == WithUnitEnd(r1, PlainUnitEnd(s, SpaceRunEnd(s, r1)))

\* (?:[<>]|[Uu]p\s*to)\s*\d+\.?\d* at p (re.I): the position after it, 0 when
\* it fails
BoundNumberEnd(s, g) == IF NumberEnd(s, g) > g THEN NumberEnd(s, g) ELSE 0
BoundEnd(s, p) ==
    IF p <= Len(s) /\ s[p] \in {"<", ">"} THEN BoundNumberEnd(s, SpaceRunEnd(s, p + 1))
    ELSE IF WordsEnd(s, p, W2("up", "to")) # 0
         THEN BoundNumberEnd(s, SpaceRunEnd(s, WordsEnd(s, p, W2("up", "to"))))
         ELSE 0

\* the ref group of the patterns that end with one, by the index k of the
\* pattern, at r0: the position after it, 0 when it fails
RefEnd(s, r0, k) ==
    CASE k = 1 -> RangeUnitEnd(s, RangeEnd(s, r0, RefDashes))
      [] k = 2 -> BoundEnd(s, r0)
      [] k = 5 -> RangeEnd(s, r0, {"-", EnDash})

\* what pattern k wants after a unit that ends at q: \s+ and the ref group,
\* nothing for LINE_PATTERNS[2]
RestOk(s, q, k) ==
    k = 3 \/ (SpaceRunEnd(s, q) > q /\ RefEnd(s, SpaceRunEnd(s, q), k) # 0)

\* (?P<unit>UNIT_PATTERN) at p for pattern k: the position after the first
\* alternative after which the rest of the pattern matches, 0 when none
UnitEnd(s, p, k) ==
    FirstUnitEnd(p, { u \in 1..Len(KNOWN_UNITS) :
                        LiteralAt(s, p, KNOWN_UNITS[u]) /\ RestOk(s, p + Len(KNOWN_UNITS[u]), k) })

\* LINE_PATTERNS[0], [1], [2] and [4] after a name that ends at e:
\* \s{gap,} value \s+ unit, then \s+ ref for all but LINE_PATTERNS[2]
TabularRef(s, e, v0, v1, u0, u1, k) ==
    IF u1 = 0 THEN NoMatch
    ELSE IF k = 3 THEN Groups(s, e, v0, v1, u0, u1, 0, 0)
    ELSE Groups(s, e, v0, v1, u0, u1, SpaceRunEnd(s, u1), RefEnd(s, SpaceRunEnd(s, u1), k))

TabularUnit(s, e, v0, v1, u0, k) ==
    IF v1 > v0 /\ u0 > v1
    THEN TabularRef(s, e, v0, v1, u0, UnitEnd(s, u0, k), k)
    ELSE NoMatch

TabularValue(s, e, v0, v1, gap, k) ==
    IF v0 - e >= gap
    THEN TabularUnit(s, e, v0, v1, SpaceRunEnd(s, v1), k)
    ELSE NoMatch

TabularAt(s, e, v0, gap, k) == TabularValue(s, e, v0, NumberEnd(s, v0), gap, k)

\* LINE_PATTERNS[0]: name, two blanks, value, unit, low-high range with an
\* optional unit
Pattern1At(s, e) == TabularAt(s, e, SpaceRunEnd(s, e), 2, 1)

\* LINE_PATTERNS[1]: name, two blanks, value, unit, one-sided bound
Pattern2At(s, e) == TabularAt(s, e, SpaceRunEnd(s, e), 2, 2)

\* LINE_PATTERNS[2]: name, two blanks, value, unit
Pattern3At(s, e) == TabularAt(s, e, SpaceRunEnd(s, e), 2, 3)

\* LINE_PATTERNS[3]: name, ":" or "=", value, then optionally a unit,
\* brackets, "Ref:" and a range; every piece after the value may be empty, so
\* each takes what it can and nothing is given back
RefLabelEnd(s, b) ==
    IF LiteralAt(s, b, Chars("ref"))
    THEN SpaceRunEnd(s, IF b + 3 <= Len(s) /\ s[b + 3] \in {":", "."} THEN b + 4 ELSE b + 3)
    ELSE b

LabelledRef(s, e, v0, v1, u0, u1, f0) ==
    Groups(s, e, v0, v1, u0, u1, f0, RangeEnd(s, f0, {"-", EnDash}))

LabelledBrackets(s, e, v0, v1, u0, u1) ==
    LabelledRef(s, e, v0, v1, u0, u1,
                RefLabelEnd(s, SpaceRunEnd(s, RunEnd(s, SpaceRunEnd(s, IF u1 # 0 THEN u1 ELSE u0),
                                                     {"(", "["}))))

LabelledUnit(s, e, v0, v1, u0) ==
    IF v1 > v0 THEN LabelledBrackets(s, e, v0, v1, u0, PlainUnitEnd(s, u0)) ELSE NoMatch

LabelledValue(s, e, v0, v1) == LabelledUnit(s, e, v0, v1, SpaceRunEnd(s, v1))

LabelledAt(s, e, c) ==
    IF c <= Len(s) /\ s[c] \in {":", "="}
    THEN LabelledValue(s, e, SpaceRunEnd(s, c + 1), NumberEnd(s, SpaceRunEnd(s, c + 1)))
    ELSE NoMatch

Pattern4At(s, e) == LabelledAt(s, e, SpaceRunEnd(s, e))

\* LINE_PATTERNS[4]: name of three characters or more, blanks, value, unit,
\* low-high range
Pattern5At(s, e) == TabularAt(s, e, SpaceRunEnd(s, e), 1, 5)

PatternAt(k, s, e) ==
    CASE k = 1 -> Pattern1At(s, e)
      [] k = 2 -> Pattern2At(s, e)
      [] k = 3 -> Pattern3At(s, e)
      [] k = 4 -> Pattern4At(s, e)
      [] k = 5 -> Pattern5At(s, e)

\* the match with the shortest name among the matches hits, each paired with the
\* end of its name
ShortestName(hits) ==
    IF hits = {} THEN NoMatch
    ELSE (CHOOSE m \in hits : \A m2 \in hits : m[1] <= m2[1])[2]

\* LINE_PATTERNS[k - 1].search(line): the groups of the match, NoMatch
PatternSearch(k, line) ==
    IF line = <<>> THEN NoMatch
    ELSE ShortestName({ m \in { <<e, PatternAt(k, line, e)>> :
                                  e \in NameEnds(line, IF k = 5 THEN 3 ELSE 2) } :
                          m[2] # NoMatch })

(***************************************************************************)
(* parser.py: pdfplumber_parse, the table pass                             *)
(*                                                                         *)
(* A table is a sequence of rows, a row a sequence of cells or NoneRow, a  *)
(* cell a string or None.  Columns are numbered from 0 as in the code.     *)
(* The state of a pass is the record st of results and seen, with the      *)
(* history of the run beside them: origin[j] is the row or line that       *)
(* results[j] was built from, encountered lists every candidate that got   *)
(* as far as the seen test, examined the tables whose rows were read, and  *)
(* failed says that an exception left the pass.                            *)
(***************************************************************************)
NoneRow == << <<"NoneRow">> >>

CellTruthy(cell) == cell # None /\ cell # <<>>
RowTruthy(row) == row # NoneRow /\ row # <<>>

NameKeywords ==
    { Chars("test"), Chars("parameter"), Chars("investigation"), Chars("name"),
      Chars("analyte") }
ValueKeywords == { Chars("result"), Chars("value"), Chars("observed") }
UnitKeywords == { Chars("unit") }
RefKeywords == { Chars("reference"), Chars("range"), Chars("normal"), Chars("ref") }

HasKeyword(cell, kws) ==
    LET cl == Lower(cell)
    IN  \E k \in kws : Contains(cl, k)

IsHeaderRow(row) ==
    RowTruthy(row) /\ \E i \in 1..Len(row) : CellTruthy(row[i]) /\ HasKeyword(row[i], NameKeywords)

\* the 1-based index of the first header row of the table, 0 when none is found
HeaderIndex(table) ==
    IF \E i \in 1..Len(table) : IsHeaderRow(table[i])
    THEN CHOOSE i \in 1..Len(table) :
            IsHeaderRow(table[i]) /\ \A j \in 1..(i - 1) : ~IsHeaderRow(table[j])
    ELSE 0

Fields == { "name", "value", "unit", "ref" }
DefaultCol == [ name |-> 0, value |-> 1, unit |-> 2, ref |-> 3 ]

\* the branch of the if/elif chain a header cell takes
CellField(cell) ==
    IF HasKeyword(cell, NameKeywords) THEN "name"
    ELSE IF HasKeyword(cell, ValueKeywords) THEN "value"
    ELSE IF HasKeyword(cell, UnitKeywords) THEN "unit"
    ELSE IF HasKeyword(cell, RefKeywords) THEN "ref"
    ELSE "other"

\* col after the loop over the header: the last cell of each kind wins
InferColumns(header) ==
    [ f \in Fields |->
        LET hits == { i \in 1..Len(header) :
                        CellTruthy(header[i]) /\ CellField(header[i]) = f }
        IN  IF hits = {} THEN DefaultCol[f]
            ELSE (CHOOSE i \in hits : \A j \in hits : j <= i) - 1 ]

safe(lst, i) ==
    IF i < Len(lst) /\ CellTruthy(lst[i + 1]) THEN Strip(lst[i + 1]) ELSE <<>>

\* a slip: a value cell without a number reads as 0
FirstNumberOrZero(s) ==
    LET p == FirstPos(s, LAMBDA q : IsDigit(s[q]))
    IN  IF p = 0 THEN <<"0">> ELSE Slice(s, p, NumberEnd(s, p))

\* re.search(r'(\d+\.?\d*)', s).group(1), None when there is no match
FirstNumber(s) ==
    LET p == FirstPos(s, LAMBDA q : IsDigit(s[q]))
    IN  IF p = 0 THEN None ELSE Slice(s, p, NumberEnd(s, p))

\* a slip: the key keeps the case of the name
KeyCaseSensitive(nm) == Strip(nm)

\* key = name.lower().strip()
KeyOf(nm) == Strip(Lower(nm))

Candidate(nm, v, u, r) ==
    [ test_name |-> nm, value |-> v, unit |-> u, ref_range_text |-> r ]

\* float(tok) as an optional number: NoNum stands for ValueError
Float(tok) ==
    LET e == NumberEnd(tok, 1)
    IN  IF tok # <<>> /\ IsDigit(tok[1]) /\ e = Len(tok) + 1
        THEN Num(ParseFloat(tok)) ELSE NoNum

EmptyPass ==
    [ results |-> <<>>, seen |-> {}, origin |-> <<>>, encountered |-> <<>>,
      examined |-> {}, failed |-> FALSE ]

\* the seen test and the append, shared by both passes
Keep(st, cand, from) ==
    LET key == KeyOf(cand.test_name)
        met == [ st EXCEPT !.encountered =
                    Append(@, [ key |-> key, from |-> from, cand |-> cand ]) ]
    IN  IF key \in st.seen THEN met
        ELSE [ met EXCEPT !.results = Append(@, cand),
                          !.seen = @ \cup {key},
                          !.origin = Append(@, from) ]

\* the body of the loop over table[data_start:] for one row
TableRow(st, row, col, from) ==
    IF ~RowTruthy(row) THEN st
    ELSE LET nm == safe(row, col.name)
             val_str == safe(row, col.value)
             unit == safe(row, col.unit)
             ref == safe(row, col.ref)
             val_m == FirstNumber(val_str)
         IN  IF Len(nm) < 2 THEN st
             ELSE IF val_m = None THEN st
             ELSE IF KeyOf(nm) \in INVALID_NAMES THEN st
             ELSE Keep(st, Candidate(nm, Float(val_m), unit, ref), from)

RECURSIVE TableRows(_, _, _, _, _)
TableRows(st, table, r, col, at) ==
    IF r > Len(table) THEN st
    ELSE TableRows(TableRow(st, table[r], col, <<"table", at[1], at[2], r>>),
                   table, r + 1, col, at)

\* the body of the loop over tables for one table; at is <<page, table>>.
\* a slip: "for row in table" instead of "for row in table[data_start:]"
ProcessTableAllRows(st, table, at) ==
    IF table = <<>> \/ Len(table) < 2 THEN st
    ELSE LET h == HeaderIndex(table)
             header == IF h # 0 THEN table[h] ELSE table[1]
         IN  IF header = NoneRow THEN [ st EXCEPT !.failed = TRUE ]
             ELSE TableRows([ st EXCEPT !.examined = @ \cup {at} ],
                            table, 1, InferColumns(header), at)

\* enumerate(header) raises TypeError when no header row was found and
\* table[0] is None
ProcessTable(st, table, at) ==
    IF table = <<>> \/ Len(table) < 2 THEN st
    ELSE LET h == HeaderIndex(table)
             header == IF h # 0 THEN table[h] ELSE table[1]
             data_start == IF h # 0 THEN h ELSE 1
         IN  IF header = NoneRow THEN [ st EXCEPT !.failed = TRUE ]
             ELSE TableRows([ st EXCEPT !.examined = @ \cup {at} ],
                            table, data_start + 1, InferColumns(header), at)

\* the loop over the tables of page p; an exception leaves the loop
RECURSIVE ProcessTables(_, _, _, _)
ProcessTables(st, tbls, t, p) ==
    IF t > Len(tbls) \/ st.failed THEN st
    ELSE ProcessTables(ProcessTable(st, tbls[t], <<p, t>>), tbls, t + 1, p)

(***************************************************************************)
(* parser.py: pdfplumber_parse, the text pass                              *)
(***************************************************************************)
\* text += t + "\n" for every page with text
RECURSIVE PagesText(_)
PagesText(doc) ==
    IF doc = <<>> THEN <<>>
    ELSE (IF CellTruthy(Head(doc).text) THEN Head(doc).text \o <<"\n">> ELSE <<>>)
         \o PagesText(Tail(doc))

\* re.sub(r'[|]', ' ', s)
ReplaceBars(s) == [ i \in 1..Len(s) |-> IF s[i] = "|" THEN " " ELSE s[i] ]

\* the concatenation of the pieces, by halves
RECURSIVE Flatten(_)
Flatten(pieces) ==
    IF pieces = <<>> THEN <<>>
    ELSE IF Len(pieces) = 1 THEN pieces[1]
    ELSE LET m == Len(pieces) \div 2
         IN  Flatten(SubSeq(pieces, 1, m)) \o Flatten(SubSeq(pieces, m + 1, Len(pieces)))

\* re.sub(r'\t', '  ', s)
ExpandTabs(s) ==
    Flatten([ i \in 1..Len(s) |-> IF s[i] = "\t" THEN <<" ", " ">> ELSE <<s[i]>> ])

\* re.sub(r'[ ]{3,}', '  ', s): of a run of three blanks or more the first
\* two stay
SqueezeSpaces(s) ==
    Flatten([ i \in 1..Len(s) |->
                IF i >= 3 /\ s[i] = " " /\ s[i - 1] = " " /\ s[i - 2] = " "
                THEN <<>> ELSE <<s[i]>> ])

\* s.split('\n')
RECURSIVE SplitLines(_)
SplitLines(s) ==
    LET p == FirstPos(s, LAMBDA q : s[q] = "\n")
    IN  IF p = 0 THEN <<s>>
        ELSE <<SubSeq(s, 1, p - 1)>> \o SplitLines(SubSeq(s, p + 1, Len(s)))

HasDigit(s) == \E i \in 1..Len(s) : IsDigit(s[i])

\* a slip: the next line is not looked at
MergeableWhateverFollows(lns, i) ==
    LET ln == Strip(lns[i])
    IN  /\ i + 1 <= Len(lns)
        /\ ln # <<>> /\ ~HasDigit(ln) /\ Len(ln) > 2 /\ ~_should_skip(ln)

\* the condition under which the line at 1-based index i is joined with the
\* next one
Mergeable(lns, i) ==
    LET ln == Strip(lns[i])
    IN  /\ i + 1 <= Len(lns)
        /\ ln # <<>> /\ ~HasDigit(ln) /\ Len(ln) > 2 /\ ~_should_skip(ln)
        /\ HasDigit(Strip(lns[i + 1]))

\* the merge loop from index i on: each entry is the merged line, the index
\* of its first input line and whether the next input line was joined to it
RECURSIVE Merge(_, _)
Merge(lns, i) ==
    IF i > Len(lns) THEN <<>>
    ELSE IF Mergeable(lns, i)
         THEN << [ line |-> Strip(lns[i]) \o <<" ", " ">> \o Strip(lns[i + 1]),
                   first |-> i, joined |-> TRUE ] >> \o Merge(lns, i + 2)
         ELSE << [ line |-> Strip(lns[i]), first |-> i, joined |-> FALSE ] >>
              \o Merge(lns, i + 1)

\* str.rstrip(chars)
RECURSIVE RStripChars(_, _)
RStripChars(s, chars) ==
    IF s # <<>> /\ s[Len(s)] \in chars
    THEN RStripChars(SubSeq(s, 1, Len(s) - 1), chars) ELSE s

OrEmpty(g) == IF g = None THEN <<>> ELSE g

NoCandidate == [ pattern |-> 0 ]

\* name = re.sub(r'\s+', ' ', g['name']).strip().rstrip(':= ')
CleanName(nm) == RStripChars(Strip(CollapseSpaces(nm)), {":", "=", " "})

\* the loop over LINE_PATTERNS from index k on: the candidate of the first
\* pattern that matches with an acceptable name and value, and that
\* pattern.  A match whose name or value is rejected goes on to the next
\* pattern.
RECURSIVE Cascade(_, _)
CascadeValue(ln, k, g, nm, val) ==
    IF ~IsNum(val) THEN Cascade(ln, k + 1)
    ELSE [ pattern |-> k,
           cand |-> Candidate(nm, val, Strip(OrEmpty(g.unit)), Strip(OrEmpty(g.ref))) ]

\* a slip: the text pass tests the length of the name only
CascadeNameLengthOnly(ln, k, g, nm) ==
    IF Len(nm) < 2 THEN Cascade(ln, k + 1)
    ELSE CascadeValue(ln, k, g, nm, Float(g.value))

CascadeName(ln, k, g, nm) ==
    IF Len(nm) < 2 \/ Lower(nm) \in INVALID_NAMES THEN Cascade(ln, k + 1)
    ELSE CascadeValue(ln, k, g, nm, Float(g.value))

CascadeMatch(ln, k, g) ==
    IF g = NoMatch THEN Cascade(ln, k + 1)
    ELSE CascadeName(ln, k, g, CleanName(g.name))

Cascade(ln, k) ==
    IF k > 5 THEN NoCandidate
    ELSE CascadeMatch(ln, k, PatternSearch(k, ln))

\* the body of the loop over merged for the line at index k
KeepMatch(st, c, k) ==
    IF c.pattern = 0 THEN st ELSE Keep(st, c.cand, <<"text", k, c.pattern>>)

TextLine(st, ln, k) ==
    IF _should_skip(ln) THEN st ELSE KeepMatch(st, Cascade(ln, 1), k)

(***************************************************************************)
(* agent.py: get_summary_stats                                             *)
(*                                                                         *)
(* The dict is a record of its five counters; the key of a result is its   *)
(* status in lower case.                                                   *)
(***************************************************************************)
NoStats == [ total |-> 0, normal |-> 0, low |-> 0, high |-> 0, unknown |-> 0 ]

\* "if k in stats: stats[k] += 1 else: stats['unknown'] += 1"
Count(st, k) ==
    IF k = Chars("total") THEN [ st EXCEPT !.total = @ + 1 ]
    ELSE IF k = Chars("normal") THEN [ st EXCEPT !.normal = @ + 1 ]
    ELSE IF k = Chars("low") THEN [ st EXCEPT !.low = @ + 1 ]
    ELSE IF k = Chars("high") THEN [ st EXCEPT !.high = @ + 1 ]
    ELSE [ st EXCEPT !.unknown = @ + 1 ]

\* the loop over compared_results from index i on
RECURSIVE CountFrom(_, _, _)
CountFrom(st, rs, i) ==
    IF i > Len(rs) THEN st
    ELSE CountFrom(Count(st, Lower(Chars(rs[i].status))), rs, i + 1)

\* a slip: the status is looked up as it is written, without lower()
RECURSIVE CountAsWritten(_, _, _)
CountAsWritten(st, rs, i) ==
    IF i > Len(rs) THEN st
    ELSE CountAsWritten(Count(st, Chars(rs[i].status)), rs, i + 1)

GetSummaryStatsAsWritten(rs) ==
    CountAsWritten([ NoStats EXCEPT !.total = Len(rs) ], rs, 1)

get_summary_stats(rs) == CountFrom([ NoStats EXCEPT !.total = Len(rs) ], rs, 1)

(***************************************************************************)
(* Inputs                                                                  *)
(***************************************************************************)
RECURSIVE Concat(_)
Concat(ss) == IF ss = <<>> THEN <<>> ELSE Head(ss) \o Concat(Tail(ss))

\* the strings made of at most n fragments
FragStrings(frags, n) ==
    { Concat(fs) : fs \in UNION { [1..k -> frags] : k \in 0..n } }

\* the lists of at most n distinct members of S
ListsOf(S, n) ==
    { l \in UNION { [1..k -> S] : k \in 0..n } :
        \A i, j \in 1..Len(l) : i # j => l[i] # l[j] }

F(text) == ParseFloat(Chars(text))

MaxFrags == 3
NameFrags ==
    { Chars("Total "), Chars("total"), Chars(" "), Chars("R.B.C."),
      Chars("x"), Chars("-"), Chars(" (Hb)"), Chars("_T") }
NameInputs == FragStrings(NameFrags, MaxFrags)

MaxRefFrags == 2
RefFrags ==
    { Chars("12.0 - 17.5"), Chars("< 200"), Chars("> 40"), Chars("Up to 5 "),
      Chars("up  to"), Chars("12.0"), Chars("-"), <<EnDash>>, Chars(" 17.5"),
      Chars(" mg/dL "), Chars("<"), Chars(">"), Chars("7.") }
RefInputs == FragStrings(RefFrags, MaxRefFrags) \cup {None}

Bench(nm, als, lo, hi, cat) ==
    [ test_name |-> Chars(nm), aliases |-> als, low |-> lo, high |-> hi,
      category |-> cat, description |-> "" ]

MaxBench == 2
BenchCatalog ==
    { Bench("HbA1c", <<Chars("H.B. A1c")>>, NoNum, Num(F("5.6")), "Diabetes"),
      Bench("Hemoglobin", <<Chars("Hb"), Chars("HGB")>>, Num(F("12.0")), Num(F("17.5")), "CBC"),
      Bench("RBC Count", <<Chars("Red Blood Cell Count")>>, Num(F("4.5")), Num(F("5.5")), "CBC"),
      Bench("Red Cell Count", <<Chars("R.B.C. Count")>>, Num(F("4.5")), Num(F("5.5")), "CBC"),
      Bench("H B", <<>>, NoNum, NoNum, "Other"),
      Bench("HbF", <<Chars("H-B")>>, NoNum, Num(F("2.0")), "Hemoglobin Variants") }
BenchLists == ListsOf(BenchCatalog, MaxBench)

LookupNames ==
    { Chars("Hb"), Chars(" hb "), Chars("H.B."), Chars("Total R.B.C. Count"),
      Chars("RBC Count"), Chars("Glucose") }

\* lists for single look-ups: the catalog and an entry whose alias is a dash
EdgeBenchLists ==
    ListsOf(BenchCatalog \cup { Bench("Not Reported", <<Chars("-")>>, NoNum, NoNum, "Other") },
            MaxBench)

\* names for single look-ups: empty, blank, made of the stripped punctuation,
\* and two ordinary ones
EdgeNames ==
    { <<>>, Chars(" "), Chars("-"), Chars("(.)"), Chars("Hb"), Chars("Glucose") }

MaxTests == 2
Test(nm, v, r) ==
    [ test_name |-> Chars(nm), value |-> v, unit |-> Chars("g/dL"), ref_range_text |-> r ]
TestCatalog ==
    { Test("Hemoglobin", Num(F("12.0")), <<>>),
      Test("Hemoglobin", Num(F("11.99")), Chars("10 - 20")),
      Test("Hemoglobin", Num(F("17.5")), <<>>),
      Test("Hemoglobin", Num(F("17.51")), Chars("< 20")),
      Test("Hemoglobin", NoNum, <<>>),
      Test("Zinc", Num(F("12.0")), Chars("12.0 - 17.5")),
      Test("Zinc", Num(F("17.5")), Chars("12.0 - 17.5")),
      Test("Zinc", Num(F("17.51")), Chars("12.0 - 17.5")),
      Test("Zinc", Num(F("11.99")), Chars("> 12")),
      Test("Zinc", Num(F("17.51")), Chars("> 12")),
      Test("Zinc", Num(F("17.51")), Chars("< 17.5")),
      Test("Zinc", NoNum, Chars("12.0 - 17.5")),
      Test("Zinc", Num(F("5.6")), Chars("see note")),
      Test("Zinc", Num(F("5.6")), None),
      Test("Zinc", Num(F("12.0")), Chars("17.5 - 12.0")),
      Test("HbA1c", Num(F("5.6")), <<>>),
      Test("HbA1c", Num(F("17.51")), <<>>),
      Test("H B", Num(F("5.6")), <<>>),
      Test("H B", Num(F("5.6")), Chars("6 - 7")) }
TestLists == UNION { [1..k -> TestCatalog] : k \in 0..MaxTests }
BenchNamed(nm) == CHOOSE b \in BenchCatalog : b.test_name = Chars(nm)
CompareBenchLists ==
    { <<>>,
      <<BenchNamed("Hemoglobin"), BenchNamed("HbA1c")>>,
      <<BenchNamed("H B"), BenchNamed("HbA1c"), BenchNamed("Hemoglobin")>> }

(***************************************************************************)
(* The functions that are not running keep their variables at None         *)
(***************************************************************************)
\* the documents of pdfplumber_parse: at most MaxPages pages of the catalog
R2(a, b) == <<Chars(a), Chars(b)>>
R3(a, b, c) == <<Chars(a), Chars(b), Chars(c)>>
R4(a, b, c, d) == <<Chars(a), Chars(b), Chars(c), Chars(d)>>
Page(tbls, txt) == [ tables |-> tbls, text |-> txt ]

ScenarioTable ==
    << R4("Test", "Result", "Unit", "Range"),
       R4("Hemoglobin", "10.2", "g/dL", "12.0 - 17.5") >>
\* the columns in another order, and rows that are short, empty, without a
\* number, named by a header word, or a repetition
ReorderedTable ==
    << R4("Unit", "Reference Range", "Investigation", "Observed"),
       R4("mg/dL", " 70 - 100", "Glucose", " approx 95.5 H "),
       <<None, <<>>, Chars("X"), Chars("5")>>,
       R4("%", "4.0 - 5.6", "HbA1c", "pending"),
       R4("", "", "Result", "7"),
       NoneRow,
       R4("g/dL", "12.0 - 17.5", " hemoglobin ", "9"),
       <<Chars("U/L")>>,
       R3("mg/dL", "< 200", "Cholesterol") \o <<Chars("250")>> >>
\* the reference column is headed "Normal Value"
NormalValueTable ==
    << R4("Test Name", "Result", "Unit", "Normal Value"),
       R4("Platelets", "250", "thou/uL", "150 - 400") >>
\* no header row: the first row is taken for it and the default columns hold
HeaderlessTable ==
    << R3("CBC", "", ""), R3("TSH", "2.5", "mIU/L") >>
\* no header row and no first row
MalformedTable ==
    << NoneRow, R4("ESR", "12", "mm/hr", "0 - 20") >>
SingleRowTable == << R2("Test", "Result") >>
\* the header row comes after a row of data
LateHeaderTable ==
    << R2("Sodium", "140"), R2("Test", "Result"), R2("Potassium", "4.1") >>

ScenarioPage ==
    Page(<<ScenarioTable>>,
         Chars("Hemoglobin  11.0 g/dL  12.0 - 17.5\nPatient Name: John Doe"))
ReorderedPage == Page(<<<<>>, ReorderedTable>>, None)
NormalValuePage ==
    Page(<<NormalValueTable, SingleRowTable>>, Chars("Result  5 %\nNormal  5 fl x: 3\nESR"))
MalformedPage ==
    Page(<<HeaderlessTable, MalformedTable, ScenarioTable>>,
         Chars("TSH 3.1 mIU/L 0.4 - 4.0\nPlatelets |\t300      thou/uL"))
LabelledPage ==
    Page(<<LateHeaderTable>>,
         Chars("Hemoglobin\nDate: 12/01/2024\nGlucose: 95 mg/dL (Ref: 70-100)"))
MultiLinePage ==
    Page(<<>>, Chars("Cholesterol  250 mg/dL  < 200\n-----\nhemoglobin\n9.1 g/dL  13 - 17\nHbA1c = 5.9"))

PageCatalog ==
    { ScenarioPage, ReorderedPage, NormalValuePage, MalformedPage, LabelledPage,
      MultiLinePage }

MaxPages == 2
Documents == UNION { [1..k -> PageCatalog] : k \in 0..MaxPages }

NormalizeIdle == name = None /\ n1 = None /\ n2 = None
ResolveIdle == benchmarks = None /\ found = None
RangeIdle == ref_text = None /\ range = None
CompareIdle == extracted_tests = None /\ compared = None
ParseIdle ==
    /\ pages = None /\ page_no = 0 /\ lines = None /\ merged = None /\ line_no = 0
    /\ returned = None /\ results = None /\ seen = None
    /\ origin = None /\ encountered = None /\ examined = None /\ failures = None
LoadIdle == db_file = None /\ loaded = None
ConcurrentIdle == runs = None /\ frames = None
AuthIdle ==
    /\ users = None /\ sessions = None /\ now = 0 /\ locked = FALSE /\ logins = None
    /\ revoked = None /\ call = None /\ result = None
SummaryIdle == stats = None
AppIdle == session_state = None /\ query_params = None /\ rendered = None /\ rerun = None
LateIdle == SummaryIdle /\ AppIdle
RestIdle == LoadIdle /\ ConcurrentIdle /\ AuthIdle /\ LateIdle

(***************************************************************************)
(* _normalize_name: one call, then a call on its own result                *)
(***************************************************************************)
InitNormalize ==
    /\ pc = "normalize"
    /\ name \in NameInputs
    /\ n1 = None
    /\ n2 = None
    /\ ResolveIdle /\ RangeIdle /\ CompareIdle /\ ParseIdle /\ RestIdle

Normalize ==
    /\ pc = "normalize"
    /\ n1' = _normalize_name(name)
    /\ pc' = "renormalize"
    /\ UNCHANGED <<name, n2, resolveVars, rangeVars, compareVars, parseVars, restVars>>

Renormalize ==
    /\ pc = "renormalize"
    /\ n2' = _normalize_name(n1)
    /\ pc' = "normalized"
    /\ UNCHANGED <<name, n1, resolveVars, rangeVars, compareVars, parseVars, restVars>>

NextNormalize == Normalize \/ Renormalize

SpecNormalize == InitNormalize /\ [][NextNormalize]_vars

(***************************************************************************)
(* find_benchmark: calls with different names on one benchmark list        *)
(***************************************************************************)
InitResolve ==
    /\ pc = "resolve"
    /\ benchmarks \in BenchLists
    /\ found = <<>>
    /\ NormalizeIdle /\ RangeIdle /\ CompareIdle /\ ParseIdle /\ RestIdle

FindBenchmark ==
    /\ pc = "resolve"
    /\ \E test_name \in LookupNames \ DOMAIN found :
          found' = (test_name :> find_benchmark(test_name, benchmarks)) @@ found
    /\ UNCHANGED <<pc, benchmarks, normalizeVars, rangeVars, compareVars, parseVars, restVars>>

NextResolve == FindBenchmark

SpecResolve == InitResolve /\ [][NextResolve]_vars

\* one call of find_benchmark on a list
InitLookup ==
    /\ pc = "lookup"
    /\ benchmarks \in EdgeBenchLists
    /\ found = <<>>
    /\ NormalizeIdle /\ RangeIdle /\ CompareIdle /\ ParseIdle /\ RestIdle

FindBenchmarkOnce ==
    /\ pc = "lookup"
    /\ found = <<>>
    /\ \E test_name \in EdgeNames :
          found' = (test_name :> find_benchmark(test_name, benchmarks))
    /\ UNCHANGED <<pc, benchmarks, normalizeVars, rangeVars, compareVars, parseVars, restVars>>

NextLookup == FindBenchmarkOnce

SpecLookup == InitLookup /\ [][NextLookup]_vars

(***************************************************************************)
(* _parse_ref_range: one call                                              *)
(***************************************************************************)
InitRange ==
    /\ pc = "parse_range"
    /\ ref_text \in RefInputs
    /\ range = None
    /\ NormalizeIdle /\ ResolveIdle /\ CompareIdle /\ ParseIdle /\ RestIdle

ParseRefRange ==
    /\ pc = "parse_range"
    /\ range' = _parse_ref_range(ref_text)
    /\ pc' = "range_parsed"
    /\ UNCHANGED <<ref_text, normalizeVars, resolveVars, compareVars, parseVars, restVars>>

NextRange == ParseRefRange

SpecRange == InitRange /\ [][NextRange]_vars

(***************************************************************************)
(* compare_with_benchmarks: the loop over extracted_tests                  *)
(***************************************************************************)
InitCompare ==
    /\ pc = "compare"
    /\ extracted_tests \in TestLists
    /\ benchmarks \in CompareBenchLists
    /\ compared = <<>>
    /\ found = None
    /\ NormalizeIdle /\ RangeIdle /\ ParseIdle /\ RestIdle

CompareTest ==
    /\ pc = "compare"
    /\ Len(compared) < Len(extracted_tests)
    /\ compared' = Append(compared, Enrich(extracted_tests[Len(compared) + 1], benchmarks))
    /\ UNCHANGED <<pc, extracted_tests, normalizeVars, resolveVars, rangeVars, parseVars, restVars>>

CompareReturn ==
    /\ pc = "compare"
    /\ Len(compared) = Len(extracted_tests)
    /\ pc' = "compared"
    /\ UNCHANGED <<normalizeVars, resolveVars, rangeVars, compareVars, parseVars, restVars>>

\* the caller hands the list returned to get_summary_stats
GetSummaryStats ==
    /\ pc = "compared"
    /\ stats' = get_summary_stats(compared)
    /\ pc' = "summarized"
    /\ UNCHANGED <<normalizeVars, resolveVars, rangeVars, compareVars, parseVars,
                   loadVars, concurrentVars, authVars, appVars>>

NextCompare == CompareTest \/ CompareReturn \/ GetSummaryStats

SpecCompare == InitCompare /\ [][NextCompare]_vars

(***************************************************************************)
(* pdfplumber_parse: the table pass page by page, then the text pass line  *)
(* by line.  The two pdfplumber.open calls read the same file, so one      *)
(* variable holds the pages for both passes.                               *)
(***************************************************************************)
InitParse ==
    /\ pc = "tables"
    /\ pages \in Documents
    /\ page_no = 1
    /\ results = <<>> /\ seen = {}
    /\ lines = <<>> /\ merged = <<>> /\ line_no = 0
    /\ returned = None
    /\ origin = <<>> /\ encountered = <<>> /\ examined = {} /\ failures = {}
    /\ NormalizeIdle /\ ResolveIdle /\ RangeIdle /\ CompareIdle /\ RestIdle

PassState ==
    [ results |-> results, seen |-> seen, origin |-> origin,
      encountered |-> encountered, examined |-> examined, failed |-> FALSE ]

SetPass(st) ==
    /\ results' = st.results /\ seen' = st.seen /\ origin' = st.origin
    /\ encountered' = st.encountered /\ examined' = st.examined

\* the exception classes: the ones the per-row handler names, and the ones
\* pdfplumber raises on a file it cannot read
RowErrors == {"IndexError", "TypeError", "ValueError"}
LibraryErrors == {"OSError", "PDFSyntaxError"}

\* "except (IndexError, TypeError, ValueError)" put where "except Exception" is
CatchesRowErrors(kind) == kind \in RowErrors

\* "except Exception" around each pass
Catches(kind) == kind \in RowErrors \cup LibraryErrors

\* one iteration of "for page in pdf.pages" of the table pass; an exception
\* is caught outside the loops and ends the pass
TablePage ==
    /\ pc = "tables"
    /\ page_no <= Len(pages)
    /\ LET st == ProcessTables(PassState, pages[page_no].tables, 1, page_no)
       IN  /\ SetPass(st)
           /\ pc' = IF ~st.failed THEN "tables"
                    ELSE IF Catches("TypeError") THEN "text" ELSE "raised"
           /\ page_no' = IF st.failed THEN page_no ELSE page_no + 1
           /\ failures' = IF st.failed THEN failures \cup {<<"tables", "table">>}
                          ELSE failures
    /\ UNCHANGED <<pages, lines, merged, line_no, returned,
                   normalizeVars, resolveVars, rangeVars, compareVars, restVars>>

\* pdfplumber.open raises before the first page, or page.extract_tables
\* raises on the page the pass is at
TablesRaise ==
    /\ pc = "tables"
    /\ page_no = 1 \/ page_no <= Len(pages)
    /\ \E kind \in LibraryErrors :
           pc' = IF Catches(kind) THEN "text" ELSE "raised"
    /\ failures' = failures \cup {<<"tables", "pdfplumber">>}
    /\ UNCHANGED <<pages, page_no, lines, merged, line_no, returned, passVars,
                   normalizeVars, resolveVars, rangeVars, compareVars, restVars>>

TablesDone ==
    /\ pc = "tables"
    /\ page_no > Len(pages)
    /\ pc' = "text"
    /\ UNCHANGED <<normalizeVars, resolveVars, rangeVars, compareVars, parseVars, restVars>>

\* the text of the pages is gathered, cleaned, split and merged
ExtractText ==
    /\ pc = "text"
    /\ LET txt == PagesText(pages)
           lns == SplitLines(SqueezeSpaces(ExpandTabs(ReplaceBars(txt))))
       IN  IF txt = <<>>
           THEN pc' = "return" /\ UNCHANGED <<lines, merged, line_no>>
           ELSE /\ lines' = lns
                /\ merged' = Merge(lns, 1)
                /\ line_no' = 1
                /\ pc' = "lines"
    /\ UNCHANGED <<pages, page_no, returned, passVars, failures,
                   normalizeVars, resolveVars, rangeVars, compareVars, restVars>>

\* pdf_file.seek, pdfplumber.open or page.extract_text raises: text is not
\* assigned to, and the pass ends with no line read
TextRaise ==
    /\ pc = "text"
    /\ \E kind \in LibraryErrors :
           pc' = IF Catches(kind) THEN "return" ELSE "raised"
    /\ failures' = failures \cup {<<"text", "pdfplumber">>}
    /\ UNCHANGED <<pages, page_no, lines, merged, line_no, returned, passVars,
                   normalizeVars, resolveVars, rangeVars, compareVars, restVars>>

\* one iteration of "for line in merged"
ProcessLine ==
    /\ pc = "lines"
    /\ line_no <= Len(merged)
    /\ SetPass(TextLine(PassState, merged[line_no].line, line_no))
    /\ line_no' = line_no + 1
    /\ UNCHANGED <<pc, pages, page_no, lines, merged, returned, failures,
                   normalizeVars, resolveVars, rangeVars, compareVars, restVars>>

ParseReturn ==
    /\ pc = "return" \/ (pc = "lines" /\ line_no > Len(merged))
    /\ returned' = results
    /\ pc' = "done"
    /\ UNCHANGED <<pages, page_no, lines, merged, line_no, passVars, failures,
                   normalizeVars, resolveVars, rangeVars, compareVars, restVars>>

NextParse ==
    \/ TablePage \/ TablesRaise \/ TablesDone
    \/ ExtractText \/ TextRaise \/ ProcessLine \/ ParseReturn

SpecParse == InitParse /\ [][NextParse]_vars

(***************************************************************************)
(* agent.py: load_benchmark_db.  benchmark_db.json is described by how    *)
(* far open, json.load and data["tests"] get with it; a JSON value is a    *)
(* record of its kind and, for a list or an object, of what iterating it   *)
(* yields.                                                                 *)
(***************************************************************************)
JsonNull == [ kind |-> "null", items |-> <<>> ]
JsonList(entries) == [ kind |-> "list", items |-> entries ]
JsonObject(keys) == [ kind |-> "object", items |-> keys ]
NotLoaded == [ kind |-> "unset", items |-> <<>> ]

DbFile(state, tests) == [ state |-> state, tests |-> tests ]

\* the file cannot be opened; it is no JSON text; its top-level value is an
\* array; it is an object without "tests"; it is an object with "tests"
DbFiles ==
    { DbFile("unreadable", JsonNull),
      DbFile("not json", JsonNull),
      DbFile("array", JsonNull),
      DbFile("no tests", JsonNull),
      DbFile("tests", JsonNull),
      DbFile("tests", JsonObject(<<>>)),
      DbFile("tests", JsonObject(<<Chars("Hemoglobin")>>)) }
    \cup { DbFile("tests", JsonList(bl)) : bl \in CompareBenchLists }

\* the exception load_benchmark_db leaves by, "" when it returns
LoadRaises(file) ==
    CASE file.state = "unreadable" -> "OSError"
      [] file.state = "not json"   -> "JSONDecodeError"
      [] file.state = "array"      -> "TypeError"
      [] file.state = "no tests"   -> "KeyError"
      [] OTHER                     -> ""

load_benchmark_db(file) == file.tests

\* "for bench in benchmarks" and bench["test_name"] in find_benchmark: None
\* cannot be iterated, and iterating an object yields its keys, strings
\* that cannot be indexed by "test_name"
LookupRaises(value) ==
    \/ value.kind = "null"
    \/ value.kind = "object" /\ value.items # <<>>

(***************************************************************************)
(* compare_with_benchmarks(extracted_tests) with no benchmark list passed: *)
(* the call of load_benchmark_db, then the loop over the tests.  No        *)
(* handler surrounds either, so an exception leaves the function.          *)
(***************************************************************************)
InitLoad ==
    /\ pc = "load"
    /\ db_file \in DbFiles
    /\ loaded = NotLoaded
    /\ extracted_tests \in TestLists
    /\ compared = <<>>
    /\ benchmarks = None /\ found = None
    /\ NormalizeIdle /\ RangeIdle /\ ParseIdle /\ ConcurrentIdle /\ AuthIdle /\ LateIdle

LoadBenchmarkDb ==
    /\ pc = "load"
    /\ IF LoadRaises(db_file) # ""
       THEN pc' = "raised" /\ loaded' = loaded
       ELSE pc' = "compare" /\ loaded' = load_benchmark_db(db_file)
    /\ UNCHANGED <<db_file, normalizeVars, resolveVars, rangeVars, compareVars, parseVars, concurrentVars, authVars, lateVars>>

LoadedTest ==
    /\ pc = "compare"
    /\ Len(compared) < Len(extracted_tests)
    /\ IF LookupRaises(loaded)
       THEN pc' = "raised" /\ compared' = compared
       ELSE /\ pc' = pc
            /\ compared' = Append(compared,
                   Enrich(extracted_tests[Len(compared) + 1], loaded.items))
    /\ UNCHANGED <<extracted_tests, loadVars, normalizeVars, resolveVars, rangeVars, parseVars, concurrentVars, authVars, lateVars>>

LoadedReturn ==
    /\ pc = "compare"
    /\ Len(compared) = Len(extracted_tests)
    /\ pc' = "compared"
    /\ UNCHANGED <<loadVars, normalizeVars, resolveVars, rangeVars, compareVars, parseVars, concurrentVars, authVars, lateVars>>

NextLoad == LoadBenchmarkDb \/ LoadedTest \/ LoadedReturn

SpecLoad == InitLoad /\ [][NextLoad]_vars

(***************************************************************************)
(* pdfplumber_parse and compare_with_benchmarks as functions of their      *)
(* arguments: one call executed alone, with a readable document            *)
(***************************************************************************)
RECURSIVE ParseTables(_, _, _)
ParseTables(st, doc, p) ==
    IF p > Len(doc) \/ st.failed THEN st
    ELSE ParseTables(ProcessTables(st, doc[p].tables, 1, p), doc, p + 1)

MergedOf(doc) ==
    LET txt == PagesText(doc)
    IN  IF txt = <<>> THEN <<>>
        ELSE Merge(SplitLines(SqueezeSpaces(ExpandTabs(ReplaceBars(txt)))), 1)

RECURSIVE ParseLines(_, _, _)
ParseLines(st, mg, k) ==
    IF k > Len(mg) THEN st
    ELSE ParseLines(TextLine(st, mg[k].line, k), mg, k + 1)

pdfplumber_parse(doc) ==
    ParseLines([ ParseTables(EmptyPass, doc, 1) EXCEPT !.failed = FALSE ],
               MergedOf(doc), 1).results

compare_with_benchmarks(tests, benchs) ==
    [ i \in 1..Len(tests) |-> Enrich(tests[i], benchs) ]

(***************************************************************************)
(* Concurrent runs: each run calls pdfplumber_parse on its own document    *)
(* and then compare_with_benchmarks on the list returned, with the one     *)
(* benchmark list all runs share.  A step is one loop iteration of one     *)
(* run.  The lists a call builds (results, seen) live in the frame of      *)
(* that call; the benchmark list is the only object more than one run      *)
(* holds.                                                                  *)
(***************************************************************************)
MaxRuns == 2
Runs == 1..MaxRuns

\* the documents of the runs: the runs execute the same code, so it is enough
\* to hand them out in one order
RunDocuments == << <<ScenarioPage>>, <<MalformedPage>>, <<MultiLinePage>> >>

\* the benchmark list the runs share
RunBenchmarks == <<BenchNamed("H B"), BenchNamed("HbA1c"), BenchNamed("Hemoglobin")>>

\* results and seen kept in one place for all calls, as module-level
\* objects would be
FrameOfFirst(r) == 1

\* "results = []" and "seen = set()" are executed by every call: the lists
\* of run r are its own
Frame(r) == r

NewRun(doc) ==
    [ pc |-> "tables", doc |-> doc, page_no |-> 1, merged |-> <<>>, line_no |-> 0,
      extracted |-> <<>>, compared |-> <<>>, returned |-> <<>> ]

InitConcurrent ==
    /\ pc = "concurrent"
    /\ benchmarks = RunBenchmarks
    /\ \E docs \in [Runs -> 1..Len(RunDocuments)] :
          /\ \A a, b \in Runs : a < b => docs[a] < docs[b]
          /\ runs = [ r \in Runs |-> NewRun(RunDocuments[docs[r]]) ]
    /\ frames = [ r \in Runs |-> EmptyPass ]
    /\ found = None
    /\ extracted_tests = None /\ compared = None
    /\ NormalizeIdle /\ RangeIdle /\ ParseIdle /\ LoadIdle /\ AuthIdle /\ LateIdle

RunUnchanged ==
    UNCHANGED <<pc, benchmarks, found, normalizeVars, rangeVars, compareVars,
                parseVars, loadVars, authVars, lateVars>>

RunTablePage(r) ==
    /\ runs[r].pc = "tables"
    /\ runs[r].page_no <= Len(runs[r].doc)
    /\ LET st == ProcessTables([ frames[Frame(r)] EXCEPT !.failed = FALSE ],
                               runs[r].doc[runs[r].page_no].tables, 1, runs[r].page_no)
       IN  /\ frames' = [ frames EXCEPT ![Frame(r)] = st ]
           /\ runs' = [ runs EXCEPT
                  ![r].pc = IF st.failed THEN "text" ELSE "tables",
                  ![r].page_no = IF st.failed THEN @ ELSE @ + 1 ]
    /\ RunUnchanged

RunTablesDone(r) ==
    /\ runs[r].pc = "tables"
    /\ runs[r].page_no > Len(runs[r].doc)
    /\ runs' = [ runs EXCEPT ![r].pc = "text" ]
    /\ UNCHANGED frames
    /\ RunUnchanged

RunExtractText(r) ==
    /\ runs[r].pc = "text"
    /\ LET mg == MergedOf(runs[r].doc)
       IN  runs' = [ runs EXCEPT ![r].merged = mg,
                                 ![r].line_no = 1,
                                 ![r].pc = "lines" ]
    /\ UNCHANGED frames
    /\ RunUnchanged

RunLine(r) ==
    /\ runs[r].pc = "lines"
    /\ runs[r].line_no <= Len(runs[r].merged)
    /\ frames' = [ frames EXCEPT ![Frame(r)] =
          TextLine([ @ EXCEPT !.failed = FALSE ],
                   runs[r].merged[runs[r].line_no].line, runs[r].line_no) ]
    /\ runs' = [ runs EXCEPT ![r].line_no = @ + 1 ]
    /\ RunUnchanged

\* "return results", and the call of compare_with_benchmarks on that list
RunParseReturn(r) ==
    /\ runs[r].pc = "lines"
    /\ runs[r].line_no > Len(runs[r].merged)
    /\ runs' = [ runs EXCEPT ![r].extracted = frames[Frame(r)].results,
                             ![r].pc = "compare" ]
    /\ UNCHANGED frames
    /\ RunUnchanged

RunCompareTest(r) ==
    /\ runs[r].pc = "compare"
    /\ Len(runs[r].compared) < Len(runs[r].extracted)
    /\ runs' = [ runs EXCEPT ![r].compared =
          Append(@, Enrich(runs[r].extracted[Len(runs[r].compared) + 1], benchmarks)) ]
    /\ UNCHANGED frames
    /\ RunUnchanged

RunCompareReturn(r) ==
    /\ runs[r].pc = "compare"
    /\ Len(runs[r].compared) = Len(runs[r].extracted)
    /\ runs' = [ runs EXCEPT ![r].returned = runs[r].compared,
                             ![r].pc = "done" ]
    /\ UNCHANGED frames
    /\ RunUnchanged

NextConcurrent ==
    \E r \in Runs :
       \/ RunTablePage(r) \/ RunTablesDone(r) \/ RunExtractText(r) \/ RunLine(r)
       \/ RunParseReturn(r) \/ RunCompareTest(r) \/ RunCompareReturn(r)

SpecConcurrent == InitConcurrent /\ [][NextConcurrent]_vars

(***************************************************************************)
(* auth.py.  users.db is the two tables and its write lock.  A statement   *)
(* that writes begins a transaction, which takes the lock; commit and      *)
(* close release it.  signup does not close its connection when the        *)
(* INSERT is refused by the UNIQUE constraint on users.email: the          *)
(* transaction stays open, and the lock is held until the garbage          *)
(* collector finalizes the connection.  Meanwhile a statement of another   *)
(* connection that writes raises OperationalError ("database is locked")   *)
(* once its busy timeout is over, and one that reads is executed.  Time    *)
(* is counted in days.                                                     *)
(***************************************************************************)
SESSION_EXPIRY_DAYS == 7

DigitChar(d) == Chars("0123456789")[d + 1]

\* str(n) for a natural number
RECURSIVE ToDigits(_)
ToDigits(n) ==
    IF n < 10 THEN <<DigitChar(n)>>
    ELSE ToDigits(n \div 10) \o <<DigitChar(n % 10)>>

\* datetime.isoformat() and datetime.fromisoformat()
IsoFormat(t) == <<"T">> \o ToDigits(t)
FromIsoFormat(text) == IntOf(Tail(text))

\* the token of the k-th successful login: secrets.token_hex(32) gives a
\* token that was never given before
token_hex(k) == <<"t">> \o ToDigits(k)

\* hashlib.sha256 of the salted password, taken to be free of collisions
_hash_password(password) == Chars("sha256:salt:") \o password

NoUser == [ id |-> 0, full_name |-> <<>>, email |-> <<>>, token |-> <<>> ]
UserRecord(row, token) ==
    [ id |-> row.id, full_name |-> row.full_name, email |-> row.email, token |-> token ]

\* what a call returns: signup (ok, message), login (ok, message or user),
\* validate_session user or None, logout None; at names the return
\* statement taken
Result(ok, message, user, at) ==
    [ ok |-> ok, message |-> message, user |-> user, at |-> at ]

Call(op, full_name, email, password, token) ==
    [ op |-> op, full_name |-> full_name, email |-> email, password |-> password,
      token |-> token ]

\* email.strip().lower()
StoredEmail(email) == Lower(Strip(email))

\* the users with this email: the UNIQUE constraint compares the stored text
UsersWithEmail(rows, email) == { u \in 1..Len(rows) : rows[u].email = email }

LockedResult == Result(FALSE, "Error: database is locked", NoUser, "OperationalError")

signup(rows, held, full_name, email, password) ==
    IF full_name = <<>> \/ email = <<>> \/ password = <<>>
    THEN [ users |-> rows, locked |-> held,
           result |-> Result(FALSE, "All fields are required.", NoUser, "fields") ]
    ELSE IF Len(password) < 6
    THEN [ users |-> rows, locked |-> held,
           result |-> Result(FALSE, "Password must be at least 6 characters.", NoUser,
                             "password") ]
    ELSE IF ~Contains(email, <<"@">>) \/ ~Contains(email, <<".">>)
    THEN [ users |-> rows, locked |-> held,
           result |-> Result(FALSE, "Please enter a valid email address.", NoUser,
                             "email") ]
    ELSE IF held
    THEN [ users |-> rows, locked |-> held, result |-> LockedResult ]
    ELSE IF UsersWithEmail(rows, StoredEmail(email)) # {}
    THEN [ users |-> rows, locked |-> TRUE,
           result |-> Result(FALSE, "An account with this email already exists.", NoUser,
                             "IntegrityError") ]
    ELSE [ users |-> Append(rows, [ id |-> Len(rows) + 1,
                                    full_name |-> Strip(full_name),
                                    email |-> StoredEmail(email),
                                    password_hash |-> _hash_password(password) ]),
           locked |-> held,
           result |-> Result(TRUE, "Account created successfully! Please log in.", NoUser,
                             "created") ]

\* the new session is stored and the old ones of the user are kept
LoginKeepsOld(rows, user_id, token, t) ==
    rows \cup { [ user_id |-> user_id, token |-> token,
                  expires_at |-> IsoFormat(t + SESSION_EXPIRY_DAYS) ] }

\* DELETE FROM sessions WHERE user_id = ?, then the INSERT of the new session
LoginSessions(rows, user_id, token, t) ==
    { s \in rows : s.user_id # user_id }
    \cup { [ user_id |-> user_id, token |-> token,
             expires_at |-> IsoFormat(t + SESSION_EXPIRY_DAYS) ] }

\* the users the SELECT of login finds
Authenticated(rows, email, password) ==
    { u \in 1..Len(rows) : /\ rows[u].email = StoredEmail(email)
                           /\ rows[u].password_hash = _hash_password(password) }

\* a slip: the old sessions of the account are deleted as soon as the email is
\* known, before the password is compared
LoginDeletesFirst(rows, sess, held, email, password, token, t) ==
    LET known == UsersWithEmail(rows, StoredEmail(email)) IN
    IF email = <<>> \/ password = <<>>
    THEN [ sessions |-> sess,
           result |-> Result(FALSE, "Email and password are required.", NoUser, "fields") ]
    ELSE IF Authenticated(rows, email, password) = {}
    THEN [ sessions |-> IF held THEN sess ELSE { s \in sess : s.user_id \notin known },
           result |-> Result(FALSE, "Invalid email or password.", NoUser, "no user") ]
    ELSE IF held
    THEN [ sessions |-> sess, result |-> LockedResult ]
    ELSE LET u == CHOOSE v \in Authenticated(rows, email, password) : TRUE
         IN  [ sessions |-> LoginSessions(sess, u, token, t),
               result |-> Result(TRUE, "", UserRecord(rows[u], token), "session") ]

login(rows, sess, held, email, password, token, t) ==
    IF email = <<>> \/ password = <<>>
    THEN [ sessions |-> sess,
           result |-> Result(FALSE, "Email and password are required.", NoUser, "fields") ]
    ELSE IF Authenticated(rows, email, password) = {}
    THEN [ sessions |-> sess,
           result |-> Result(FALSE, "Invalid email or password.", NoUser, "no user") ]
    ELSE IF held
    THEN [ sessions |-> sess, result |-> LockedResult ]
    ELSE LET u == CHOOSE v \in Authenticated(rows, email, password) : TRUE
         IN  [ sessions |-> LoginSessions(sess, u, token, t),
               result |-> Result(TRUE, "", UserRecord(rows[u], token), "session") ]

\* DELETE FROM sessions WHERE token = ?; the OperationalError of a locked
\* database is passed over
logout(sess, held, token) ==
    IF token = <<>> \/ held THEN sess ELSE { s \in sess : s.token # token }

\* datetime.now() > expires_at
Expired(t, expires_at) == t > expires_at

\* the rows of the JOIN for the token
SessionRows(rows, sess, token) ==
    { s \in sess : s.token = token /\ s.user_id \in 1..Len(rows) }

validate_session(rows, sess, held, token, t) ==
    IF token = <<>>
    THEN [ sessions |-> sess, result |-> Result(FALSE, "", NoUser, "no token") ]
    ELSE IF SessionRows(rows, sess, token) = {}
    THEN [ sessions |-> sess, result |-> Result(FALSE, "", NoUser, "no row") ]
    ELSE LET row == CHOOSE s \in SessionRows(rows, sess, token) : TRUE
         IN  IF Expired(t, FromIsoFormat(row.expires_at))
             THEN [ sessions |-> logout(sess, held, token),
                    result |-> Result(FALSE, "", NoUser, "expired") ]
             ELSE [ sessions |-> sess,
                    result |-> Result(TRUE, "", UserRecord(rows[row.user_id], token),
                                      "valid") ]

(***************************************************************************)
(* The calls of signup, login, validate_session and logout, one after the  *)
(* other, with the clock moving between them                               *)
(***************************************************************************)
MaxTokens == 3
MaxTime == 8

\* the clock is read on day 0 and from the day on which the sessions of day
\* 0 expire
Times == {0} \cup SESSION_EXPIRY_DAYS..MaxTime

\* the arguments of signup: two accounts, the first one again with its email
\* typed otherwise, and one call for each way of failing the checks
SignupCalls ==
    { <<Chars(" Al"), Chars("a@b.c"), Chars("secret")>>,
      <<Chars("Al"), Chars(" A@B.c "), Chars("secret")>>,
      <<Chars("Bo"), Chars("d@e.f"), Chars("secret")>>,
      <<<<>>, Chars("d@e.f"), Chars("secret")>>,
      <<Chars("Bo"), <<>>, Chars("secret")>>,
      <<Chars("Bo"), Chars("d@e.f"), <<>>>>,
      <<Chars("Bo"), Chars("d@e.f"), Chars("short")>>,
      <<Chars("Bo"), Chars("d.ef"), Chars("secret")>>,
      <<Chars("Bo"), Chars("d@ef"), Chars("secret")>>,
      <<Chars("Al"), Chars("A@b.c"), Chars("short")>> }

\* the arguments of login
LoginCalls ==
    { <<Chars("a@b.c"), Chars("secret")>>,
      <<Chars(" A@B.c "), Chars("secret")>>,
      <<Chars("d@e.f"), Chars("secret")>>,
      <<Chars("a@b.c"), Chars("hunter2")>>,
      <<<<>>, Chars("secret")>>,
      <<Chars("a@b.c"), <<>>>> }

\* the tokens given out so far
Given == { token_hex(k) : k \in 1..Len(logins) }

\* the tokens a caller can present: the ones given out so far, none, and one
\* that was never given out
Presented == Given \cup { <<>>, Chars("x") }

NoCall == Call("", <<>>, <<>>, <<>>, <<>>)
NoResult == Result(FALSE, "", NoUser, "")

InitAuth ==
    /\ pc = "auth"
    /\ users = <<>> /\ sessions = {}
    /\ now = 0 /\ locked = FALSE
    /\ logins = <<>> /\ revoked = {}
    /\ call = NoCall
    /\ result = NoResult
    /\ NormalizeIdle /\ ResolveIdle /\ RangeIdle /\ CompareIdle /\ ParseIdle
    /\ LoadIdle /\ ConcurrentIdle /\ LateIdle

AuthUnchanged ==
    UNCHANGED <<pc, normalizeVars, resolveVars, rangeVars, compareVars, parseVars,
                loadVars, concurrentVars, lateVars>>

Signup ==
    /\ call = NoCall
    /\ \E args \in SignupCalls :
          /\ users' = signup(users, locked, args[1], args[2], args[3]).users
          /\ locked' = signup(users, locked, args[1], args[2], args[3]).locked
          /\ result' = signup(users, locked, args[1], args[2], args[3]).result
          /\ call' = Call("signup", args[1], args[2], args[3], <<>>)
    /\ UNCHANGED <<sessions, now, logins, revoked>>
    /\ AuthUnchanged

Login ==
    /\ call = NoCall
    /\ Len(logins) < MaxTokens
    /\ \E args \in LoginCalls :
          LET out == login(users, sessions, locked, args[1], args[2],
                           token_hex(Len(logins) + 1), now)
          IN  /\ sessions' = out.sessions
              /\ result' = out.result
              /\ logins' = IF out.result.ok THEN Append(logins, out.result.user.id)
                           ELSE logins
              /\ call' = Call("login", <<>>, args[1], args[2], <<>>)
    /\ UNCHANGED <<users, now, locked, revoked>>
    /\ AuthUnchanged

ValidateSession ==
    /\ call = NoCall
    /\ \E token \in Presented :
          LET out == validate_session(users, sessions, locked, token, now)
          IN  /\ sessions' = out.sessions
              /\ result' = out.result
              /\ revoked' = IF out.result.at = "expired" THEN revoked \cup {token}
                            ELSE revoked
              /\ call' = Call("validate_session", <<>>, <<>>, <<>>, token)
    /\ UNCHANGED <<users, now, locked, logins>>
    /\ AuthUnchanged

Logout ==
    /\ call = NoCall
    /\ \E token \in Presented :
          /\ sessions' = logout(sessions, locked, token)
          /\ revoked' = revoked \cup ({token} \cap Given)
          /\ call' = Call("logout", <<>>, <<>>, <<>>, token)
    /\ result' = NoResult
    /\ UNCHANGED <<users, now, locked, logins>>
    /\ AuthUnchanged

\* the caller has the result, and the next call can be made
Return ==
    /\ call # NoCall
    /\ call' = NoCall
    /\ result' = NoResult
    /\ UNCHANGED <<users, sessions, now, locked, logins, revoked>>
    /\ AuthUnchanged

\* the garbage collector finalizes the connection signup left open: its
\* transaction is rolled back and the lock released
Collect ==
    /\ call = NoCall
    /\ locked
    /\ locked' = FALSE
    /\ UNCHANGED <<users, sessions, now, logins, revoked, call, result>>
    /\ AuthUnchanged

\* time passes between two calls
Tick ==
    /\ call = NoCall
    /\ \E t \in Times :
          /\ t > now
          /\ \A t2 \in Times : t2 > now => t <= t2
          /\ now' = t
    /\ UNCHANGED <<users, sessions, locked, logins, revoked, call, result>>
    /\ AuthUnchanged

NextAuth == Signup \/ Login \/ ValidateSession \/ Logout \/ Return \/ Collect \/ Tick

SpecAuth == InitAuth /\ [][NextAuth]_vars

(***************************************************************************)
(* C1                                                                      *)
(***************************************************************************)
BeginsWithTotal(s) == Len(s) >= 6 /\ Take(s, 6) = Chars("total ")

\* C1 (as stated): normalizing a normalized name changes nothing, for every
\* name.
C1_Idempotent == pc = "normalized" => n2 = n1

\* C1 (amended): normalizing a normalized name changes nothing exactly when
\* the normalized name does not itself begin with "total "; when it does (the
\* name carried the token twice), the second call removes the second token.
C1_IdempotentUnlessTotalAgain ==
    pc = "normalized" =>
        IF BeginsWithTotal(n1) THEN n2 = LStrip(Drop(n1, 5)) /\ n2 # n1
        ELSE n2 = n1

\* a name whose punctuation and "Total " prefix were removed, stable under a
\* second call
C1_Witness ==
    /\ pc = "normalized"
    /\ name = Chars("Total R.B.C. (Hb)")
    /\ n1 = Chars("r b c hb")
    /\ n2 = n1

C3_StatusEnumerated ==
    \A i \in 1..Len(compared) :
        LET e == compared[i] IN
        /\ e.status \in {"NORMAL", "LOW", "HIGH"}
        /\ (~IsNum(e.benchmark_low) /\ ~IsNum(e.benchmark_high)) => e.status = "NORMAL"
        /\ ~IsNum(e.value) => e.status = "NORMAL"

\* a result without value that has both bounds, and a result with a value
\* and no bound
C3_Witness ==
    /\ pc = "compared"
    /\ \E i, j \in 1..Len(compared) :
          /\ ~IsNum(compared[i].value)
          /\ IsNum(compared[i].benchmark_low) /\ IsNum(compared[i].benchmark_high)
          /\ IsNum(compared[j].value)
          /\ ~IsNum(compared[j].benchmark_low) /\ ~IsNum(compared[j].benchmark_high)
          /\ compared[j].ref_range_text # <<>>

(***************************************************************************)
(* C4, C5                                                                  *)
(***************************************************************************)
\* case-insensitive equality with the entry's test_name or one of its aliases
ExactMatch(nm, bench) ==
    \/ Lower(nm) = Lower(bench.test_name)
    \/ \E k \in 1..Len(bench.aliases) : Lower(nm) = Lower(bench.aliases[k])

\* equality of the normalized name with the normalized test_name or alias
NormalizedMatch(nm, bench) ==
    \/ _normalize_name(nm) = _normalize_name(bench.test_name)
    \/ \E k \in 1..Len(bench.aliases) :
          _normalize_name(nm) = _normalize_name(bench.aliases[k])

\* one normalized string is a substring of the other
FuzzyMatch(nm, bench) ==
    \E other \in {bench.test_name} \cup { bench.aliases[k] : k \in 1..Len(bench.aliases) } :
        \/ Contains(_normalize_name(nm), _normalize_name(other))
        \/ Contains(_normalize_name(other), _normalize_name(nm))

\* C4: when some entry of the list matches the name exactly, an exactly
\* matching entry is returned; when none does and some entry matches after
\* normalization, such an entry is returned; in both cases whatever earlier
\* entries match in a later pass.
C4_PassPriority ==
    pc = "resolve" =>
      \A nm \in DOMAIN found :
        LET n == Len(benchmarks)
            r == found[nm]
            exact == { i \in 1..n : ExactMatch(nm, benchmarks[i]) }
            normalized == { i \in 1..n : NormalizedMatch(nm, benchmarks[i]) }
        IN  /\ exact # {} => r \in exact
            /\ (exact = {} /\ normalized # {}) => r \in normalized

\* the second entry was returned for its alias although the first entry
\* matches as a substring, and (for another name) the second entry was
\* returned for its normalized name although the first matches as a substring
C4_Witness ==
    /\ pc = "resolve"
    /\ Len(benchmarks) = 2
    /\ \E nm \in DOMAIN found :
          /\ found[nm] = 2
          /\ ExactMatch(nm, benchmarks[2])
          /\ ~ExactMatch(nm, benchmarks[1]) /\ ~NormalizedMatch(nm, benchmarks[1])
          /\ FuzzyMatch(nm, benchmarks[1])
    /\ \E nm \in DOMAIN found :
          /\ found[nm] = 2
          /\ ~ExactMatch(nm, benchmarks[2]) /\ NormalizedMatch(nm, benchmarks[2])
          /\ ~NormalizedMatch(nm, benchmarks[1])
          /\ FuzzyMatch(nm, benchmarks[1])

\* C5: on a list with an entry whose test_name or alias normalizes to
\* "rbc count", "Total R.B.C. Count" resolves to the entry "RBC Count"
\* resolves to.
C5_DottedSameAsPlain ==
    ( /\ pc = "resolve"
      /\ \E i \in 1..Len(benchmarks) :
            \/ _normalize_name(benchmarks[i].test_name) = Chars("rbc count")
            \/ \E k \in 1..Len(benchmarks[i].aliases) :
                  _normalize_name(benchmarks[i].aliases[k]) = Chars("rbc count")
      /\ {Chars("Total R.B.C. Count"), Chars("RBC Count")} \subseteq DOMAIN found )
    => found[Chars("Total R.B.C. Count")] = found[Chars("RBC Count")]

(***************************************************************************)
(* C7                                                                      *)
(***************************************************************************)
\* t is digits, then at most one ".", then digits
IsNumberToken(t) ==
    /\ t # <<>>
    /\ IsDigit(t[1])
    /\ \A i \in 1..Len(t) : IsDigit(t[i]) \/ t[i] = "."
    /\ Cardinality({ i \in 1..Len(t) : t[i] = "." }) <= 1

AllSpaces(t) == \A i \in 1..Len(t) : IsSpace(t[i])

\* t is one or more dashes with optional blanks around them
IsDashGap(t) ==
    \E a \in 1..Len(t) : \E b \in a..Len(t) :
        /\ AllSpaces(Take(t, a - 1))
        /\ \A i \in a..b : t[i] \in {"-", EnDash, EmDash}
        /\ AllSpaces(Drop(t, b))

\* t is "<" or "up to" (the u in either case, any blanks before "to")
IsUpperKeyword(t) ==
    \/ t = <<"<">>
    \/ /\ Len(t) >= 4
       /\ t[1] \in {"U", "u"} /\ t[2] = "p"
       /\ t[Len(t) - 1] = "t" /\ t[Len(t)] = "o"
       /\ AllSpaces(SubSeq(t, 3, Len(t) - 2))

Spans(s, Is(_)) ==
    { sp \in (1..Len(s)) \X (2..(Len(s) + 1)) : sp[1] < sp[2] /\ Is(Slice(s, sp[1], sp[2])) }

\* the places of s where a number follows a lead-in, blanks allowed in between
\* when gapIsBlank (else a dashed gap): pairs <<span of the lead-in, span of
\* the number>>
Occurrences(s, IsLead(_), IsGap(_)) ==
    { o \in Spans(s, IsLead) \X Spans(s, IsNumberToken) :
        o[1][2] <= o[2][1] /\ IsGap(Slice(s, o[1][2], o[2][1])) }

\* the occurrence that starts first and whose number is longest
Leftmost(occs) ==
    CHOOSE o \in occs :
        \A o2 \in occs :
            \/ o[1][1] < o2[1][1]
            \/ o[1][1] = o2[1][1] /\ o[2][2] >= o2[2][2]

IsGreater(t) == t = <<">">>

\* C7: a "low dash high" range anywhere in the text gives (low, high);
\* otherwise a "<" or "up to" bound gives (None, upper); otherwise a ">" bound
\* gives (lower, None); otherwise, and for an empty or absent text, the
\* result is (None, None).  The range or bound used is the leftmost one.
C7_Forms ==
    pc = "range_parsed" =>
      IF ref_text = None \/ ref_text = <<>> THEN range = <<NoNum, NoNum>>
      ELSE
        LET ranges == Occurrences(ref_text, IsNumberToken, IsDashGap)
            uppers == Occurrences(ref_text, IsUpperKeyword, AllSpaces)
            lowers == Occurrences(ref_text, IsGreater, AllSpaces)
            Number(sp) == Num(ParseFloat(Slice(ref_text, sp[1], sp[2])))
        IN  IF ranges # {} THEN
              range = <<Number(Leftmost(ranges)[1]), Number(Leftmost(ranges)[2])>>
            ELSE IF uppers # {} THEN range = <<NoNum, Number(Leftmost(uppers)[2])>>
            ELSE IF lowers # {} THEN range = <<Number(Leftmost(lowers)[2]), NoNum>>
            ELSE range = <<NoNum, NoNum>>

\* the four forms at the values the specification gives
C7_Examples ==
    pc = "range_parsed" =>
      /\ ref_text = Chars("12.0 - 17.5") => range = <<Num(12 * Scale), Num(17 * Scale + Scale \div 2)>>
      /\ ref_text = Chars("< 200") => range = <<NoNum, Num(200 * Scale)>>
      /\ ref_text = Chars("> 40") => range = <<Num(40 * Scale), NoNum>>
      /\ ref_text = <<>> => range = <<NoNum, NoNum>>

\* C7: the forms of a reference range are recognised in priority order
\* (range, upper bound, lower bound, nothing), a text holding a range and a
\* one-sided bound is parsed as the range, and an empty or absent text
\* gives (None, None).
C7_RangePriority == C7_Forms /\ C7_Examples

\* a text with a one-sided bound before a range was parsed as the range
C7_Witness ==
    /\ pc = "range_parsed"
    /\ ref_text = Chars("Up to 5 12.0 - 17.5")
    /\ range = <<Num(12 * Scale), Num(17 * Scale + Scale \div 2)>>

(***************************************************************************)
(* Claims about pdfplumber_parse share these readings of the history.      *)
(***************************************************************************)
\* the lower-cased, trimmed test_name of a candidate
NameKey(c) == Strip(Lower(c.test_name))

\* processing order of two rows or lines: table rows in document order, then
\* text lines in order
Before(a, b) ==
    IF a[1] = "table"
    THEN \/ b[1] = "text"
         \/ a[2] < b[2]
         \/ a[2] = b[2] /\ a[3] < b[3]
         \/ a[2] = b[2] /\ a[3] = b[3] /\ a[4] < b[4]
    ELSE b[1] = "text" /\ a[2] < b[2]

TableAt(at) == pages[at[1]].tables[at[2]]

\* the header row the pass used for an examined table and the first row after
\* it, as 1-based indices
HeaderRowOf(table) == IF HeaderIndex(table) # 0 THEN HeaderIndex(table) ELSE 1

RowOrigin(at, r) == <<"table", at[1], at[2], r>>

CandidatesFrom(from) == { j \in 1..Len(results) : origin[j] = from }

(***************************************************************************)
(* C6                                                                      *)
(***************************************************************************)
\* the members of the history that are the first of their name
RECURSIVE FirstOccurrences(_, _)
FirstOccurrences(enc, keys) ==
    IF enc = <<>> THEN <<>>
    ELSE LET k == NameKey(Head(enc).cand)
         IN  IF k \in keys THEN FirstOccurrences(Tail(enc), keys)
             ELSE <<Head(enc)>> \o FirstOccurrences(Tail(enc), keys \cup {k})

\* C6: no two candidates of one run have the same lower-cased, trimmed
\* test_name; the candidates met come in processing order (table rows in
\* document order, then text lines) and the list holds, in that order, the
\* first one met of each name, the later ones being dropped; so no candidate
\* of the text pass is kept for a name that the table pass met; the list
\* returned is that list.
C6_FirstOccurrenceKept ==
    LET first == FirstOccurrences(encountered, {})
        tableKeys == { NameKey(encountered[i].cand) :
                         i \in { h \in 1..Len(encountered) : encountered[h].from[1] = "table" } }
    IN  /\ Cardinality({ NameKey(results[j]) : j \in 1..Len(results) }) = Len(results)
        /\ \A h, i \in 1..Len(encountered) :
              h < i => Before(encountered[h].from, encountered[i].from)
        /\ Len(results) = Len(first) /\ Len(origin) = Len(first)
        /\ \A j \in 1..Len(first) :
              results[j] = first[j].cand /\ origin[j] = first[j].from
        /\ \A j \in 1..Len(results) :
              origin[j][1] = "text" => NameKey(results[j]) \notin tableKeys
        /\ pc = "done" => returned = results

\* a run has returned in which a table row and a text line gave different
\* candidates of one name
C6_Witness ==
    /\ pc = "done"
    /\ \E h, i \in 1..Len(encountered) :
          /\ encountered[h].from[1] = "table"
          /\ encountered[i].from[1] = "text"
          /\ NameKey(encountered[h].cand) = NameKey(encountered[i].cand)
          /\ encountered[h].cand # encountered[i].cand
          /\ \E j \in 1..Len(returned) : returned[j] = encountered[h].cand

(***************************************************************************)
(* C8                                                                      *)
(***************************************************************************)
\* the input lines a merged line was built from
SourceLines(k) ==
    IF merged[k].joined THEN { merged[k].first, merged[k].first + 1 }
    ELSE { merged[k].first }

\* the merged line at index k has been handed to the loop over LINE_PATTERNS
ReachedCascade(k) == k < line_no /\ ~_should_skip(merged[k].line)

\* C8: no input line for which _should_skip is true reaches the pattern
\* cascade, neither on its own nor as a part of a merged line, and no
\* candidate is built from such a line.
C8_SkippableNeverMatched ==
    /\ \A k \in 1..Len(merged) :
          ReachedCascade(k) => \A i \in SourceLines(k) : ~_should_skip(lines[i])
    /\ \A j \in 1..Len(results) :
          origin[j][1] = "text" =>
             \A i \in SourceLines(origin[j][2]) : ~_should_skip(lines[i])

(***************************************************************************)
(* C9                                                                      *)
(***************************************************************************)
KeywordsOf(f) ==
    CASE f = "name" -> NameKeywords
      [] f = "value" -> ValueKeywords
      [] f = "unit" -> UnitKeywords
      [] f = "ref" -> RefKeywords

\* the ways to read the header as naming four different columns: each field
\* goes to a column whose header cell holds one of its keywords
Labellings(header) ==
    { a \in [Fields -> 0..(Len(header) - 1)] :
        /\ \A f, g \in Fields : f # g => a[f] # a[g]
        /\ \A f \in Fields :
              CellTruthy(header[a[f] + 1]) /\ HasKeyword(header[a[f] + 1], KeywordsOf(f)) }

\* C9: for a table read by the table pass whose header row labels the name,
\* value, unit and reference columns, every row after the header with a name
\* cell of 2 characters or more that is not in the stoplist and was not seen
\* before, and with a number in its value cell, yields exactly one candidate,
\* made of the row's name, unit and reference cells and of the first number
\* of its value cell; a column the row does not have reads as "".
C9_RowsOfLabelledTable ==
    \A at \in examined :
       LET table == TableAt(at)
           h == HeaderIndex(table)
       IN  (h # 0 /\ Cardinality(Labellings(table[h])) = 1) =>
              LET a == CHOOSE l \in Labellings(table[h]) : TRUE
              IN  \A r \in (h + 1)..Len(table) :
                     LET row == table[r]
                         nm == safe(row, a.name)
                         val == safe(row, a.value)
                         seenBefore ==
                             \E j \in 1..Len(results) :
                                /\ NameKey(results[j]) = Strip(Lower(nm))
                                /\ Before(origin[j], RowOrigin(at, r))
                     IN  ( /\ RowTruthy(row)
                           /\ Len(nm) >= 2
                           /\ Strip(Lower(nm)) \notin INVALID_NAMES
                           /\ HasDigit(val)
                           /\ ~seenBefore )
                         => /\ Cardinality(CandidatesFrom(RowOrigin(at, r))) = 1
                            /\ \A j \in CandidatesFrom(RowOrigin(at, r)) :
                                  results[j] = Candidate(nm, Float(FirstNumber(val)),
                                                         safe(row, a.unit), safe(row, a.ref))

(***************************************************************************)
(* C10                                                                     *)
(***************************************************************************)
\* the columns the pass used for an examined table
ColumnsOf(table) == InferColumns(table[HeaderRowOf(table)])

\* the row is read and has a name, and its value cell holds no number
Unparsable(row, col) ==
    /\ RowTruthy(row)
    /\ Len(safe(row, col.name)) >= 2
    /\ ~HasDigit(safe(row, col.value))

\* C10: every candidate has a numeric value, and in the list returned it is
\* the number read from the value token of its row or line; a row whose value
\* cell holds no number gives no candidate, and the rows after it are still
\* read: each of them that has a name and a number is among the candidates
\* or was dropped for its name; after a run with text every merged line has
\* been gone through.
C10_ValuesNumeric ==
    LET resultKeys == { NameKey(results[j]) : j \in 1..Len(results) }
    IN  /\ \A j \in 1..Len(results) : IsNum(results[j].value)
        /\ \A at \in examined :
              LET table == TableAt(at)
                  col == ColumnsOf(table)
              IN  \A r \in (HeaderRowOf(table) + 1)..Len(table) :
                     Unparsable(table[r], col) =>
                        /\ CandidatesFrom(RowOrigin(at, r)) = {}
                        /\ \A r2 \in (r + 1)..Len(table) :
                              LET nm == safe(table[r2], col.name)
                              IN  ( /\ RowTruthy(table[r2])
                                    /\ Len(nm) >= 2
                                    /\ HasDigit(safe(table[r2], col.value)) )
                                  => \/ Strip(Lower(nm)) \in INVALID_NAMES
                                     \/ Strip(Lower(nm)) \in resultKeys
        /\ pc = "done" =>
              /\ merged # <<>> => line_no = Len(merged) + 1
              /\ \A j \in 1..Len(returned) :
                    /\ IsNum(returned[j].value)
                    /\ origin[j][1] = "table" =>
                          LET table == TableAt(<<origin[j][2], origin[j][3]>>)
                              cell == safe(table[origin[j][4]], ColumnsOf(table).value)
                              p == FirstPos(cell, LAMBDA q : IsDigit(cell[q]))
                          IN  /\ p # 0
                              /\ returned[j].value
                                    = Num(ParseFloat(Slice(cell, p, NumberEnd(cell, p))))
                    /\ origin[j][1] = "text" =>
                          returned[j].value
                             = Num(ParseFloat(PatternSearch(origin[j][3],
                                                            merged[origin[j][2]].line).value))

\* a run has returned in which a row without a number was passed over and a
\* later row of the same table gave a candidate
C10_Witness ==
    /\ pc = "done"
    /\ \E at \in examined :
          LET table == TableAt(at)
              col == ColumnsOf(table)
          IN  \E r \in (HeaderRowOf(table) + 1)..Len(table) :
                 /\ Unparsable(table[r], col)
                 /\ \E r2 \in (r + 1)..Len(table) :
                       \E j \in 1..Len(returned) : origin[j] = RowOrigin(at, r2)

(***************************************************************************)
(* C11                                                                     *)
(***************************************************************************)
IsPrefix(s, t) == Len(s) <= Len(t) /\ SubSeq(t, 1, Len(s)) = s

PassFailed(pass) == \E f \in failures : f[1] = pass

\* C11: pdfplumber_parse never raises to its caller.  Whatever exception
\* ends the table pass or the text pass, no step leaves the function by an
\* exception, the candidates appended so far stay in results and results is
\* the list returned, the table pass is always followed by the text pass,
\* and a text pass that did not fail itself has read every merged line of
\* the text, whether or not the table pass failed.
C11_NeverRaises ==
    [][ /\ pc' # "raised"
        /\ IsPrefix(results, results')
        /\ (pc' = "done" => returned' = results')
        /\ (pc = "tables" /\ pc' # "tables" => pc' = "text")
        /\ (pc' = "done" /\ ~PassFailed("text")' /\ PagesText(pages) # <<>>
               => merged' # <<>> /\ line_no' = Len(merged') + 1) ]_vars

\* a run whose table pass failed after a candidate was appended and whose
\* text pass appended another one has returned both
C11_Witness ==
    /\ pc = "done" /\ PassFailed("tables")
    /\ \E j, k \in 1..Len(returned) :
           /\ j < k /\ origin[j][1] = "table" /\ origin[k][1] = "text"

(***************************************************************************)
(* C12                                                                     *)
(***************************************************************************)
\* the tables of the document, as <<page, table>>
TablesOf(doc) ==
    { at \in (1..Len(doc)) \X (1..3) : at[2] <= Len(doc[at[1]].tables) }

\* the table loop reads the rows of the table: it is not skipped for its
\* length and its header row can be enumerated
Readable(table) ==
    /\ Len(table) >= 2
    /\ table[HeaderRowOf(table)] # NoneRow

\* the row has a name of two characters or more that is no stoplist word and
\* a number in its value cell
ValidRow(row, col) ==
    /\ RowTruthy(row)
    /\ Len(safe(row, col.name)) >= 2
    /\ FirstNumber(safe(row, col.value)) # None
    /\ KeyOf(safe(row, col.name)) \notin INVALID_NAMES

\* C12: a malformed table does not abort the remaining tables.  Once the
\* table pass is over, and pdfplumber itself raised nothing in it, every
\* table of the document whose rows can be read has been examined, whatever
\* tables precede it, and each of its valid rows has given a candidate to
\* the seen test.
C12_LaterTablesExamined ==
    pc \notin {"tables", "raised"} /\ <<"tables", "pdfplumber">> \notin failures
    => \A at \in TablesOf(pages) :
          Readable(TableAt(at))
          => /\ at \in examined
             /\ \A r \in (HeaderRowOf(TableAt(at)) + 1)..Len(TableAt(at)) :
                   ValidRow(TableAt(at)[r], ColumnsOf(TableAt(at)))
                   => \E j \in 1..Len(encountered) :
                         encountered[j].from = RowOrigin(at, r)

(***************************************************************************)
(* C13                                                                     *)
(***************************************************************************)
\* the file holds a benchmark table: an object whose "tests" is a list of
\* entries
WellFormed(file) == file.state = "tests" /\ file.tests.kind = "list"

\* C13: an unreadable or malformed benchmark table is surfaced as an error.
\* When benchmark_db.json holds no benchmark table, load_benchmark_db
\* returns no value, and compare_with_benchmarks called without a benchmark
\* list returns no result list: both leave by an exception.
C13_MalformedTableRaises ==
    ~WellFormed(db_file)
    => /\ loaded = NotLoaded
       /\ pc # "compared"
       /\ pc # "load" => pc = "raised"

(***************************************************************************)
(* C14                                                                     *)
(***************************************************************************)
\* run r has gone through its document and holds the list pdfplumber_parse
\* returned
Parsed(r) == runs[r].pc \in {"compare", "done"}

\* C14: runs share no mutable state.  In every interleaving of the steps of
\* concurrent runs over different documents that share one benchmark list,
\* the list a run gets when its pdfplumber_parse returns is the one the
\* function gives for its document when executed alone, the list it gets
\* when its compare_with_benchmarks returns is the one that function gives
\* for that list and the benchmark list when executed alone, no later step
\* of any run changes either, and no step changes the benchmark list, a
\* document, or the candidate list a run has passed to
\* compare_with_benchmarks.
C14_RunsIsolated ==
    [][ /\ \A r \in Runs :
             /\ ~Parsed(r) /\ Parsed(r)'
                   => runs'[r].extracted = pdfplumber_parse(runs[r].doc)
             /\ runs[r].pc # "done" /\ runs'[r].pc = "done"
                   => runs'[r].returned =
                         compare_with_benchmarks(runs[r].extracted, benchmarks)
             /\ Parsed(r) => Parsed(r)' /\ runs'[r].extracted = runs[r].extracted
             /\ runs[r].pc = "done"
                   => runs'[r].pc = "done" /\ runs'[r].returned = runs[r].returned
             /\ runs'[r].doc = runs[r].doc
        /\ benchmarks' = benchmarks ]_vars

\* one run has returned while another, whose document names a test of the
\* same key, is in the middle of its text pass with that candidate appended
C14_Witness ==
    \E a, b \in Runs :
       /\ a # b
       /\ runs[a].pc = "done" /\ runs[a].returned # <<>>
       /\ runs[b].pc = "lines" /\ runs[b].line_no <= Len(runs[b].merged)
       /\ frames[a].seen \cap frames[b].seen # {}

(***************************************************************************)
(* C15                                                                     *)
(***************************************************************************)
\* the step is the call of op
Calls(op) == call = NoCall /\ call'.op = op

\* the session rows with the token
RowsOf(token) == { s \in sessions : s.token = token }

\* C15: validate_session(token) returns the record of the owning user if and
\* only if a session row with the token exists and the clock has not passed
\* its expiry time, and then changes nothing; for a row whose expiry time
\* has passed it returns None and removes that row and no other; for an
\* empty token or one without a row it returns None and leaves users and
\* sessions as they are.
C15_ValidateSession ==
    [][ Calls("validate_session")
        => /\ result'.user # NoUser
                <=> \E s \in RowsOf(call'.token) : now <= FromIsoFormat(s.expires_at)
           /\ \A s \in RowsOf(call'.token) :
                 IF now <= FromIsoFormat(s.expires_at)
                 THEN /\ result'.user = UserRecord(users[s.user_id], call'.token)
                      /\ sessions' = sessions
                 ELSE /\ result'.user = NoUser
                      /\ sessions' = sessions \ {s}
           /\ call'.token = <<>> \/ RowsOf(call'.token) = {}
                 => result'.user = NoUser /\ sessions' = sessions
           /\ users' = users ]_vars

(***************************************************************************)
(* C16                                                                     *)
(***************************************************************************)
\* C16: logout(token) removes the session row with that token and nothing
\* else, and nothing at all for an empty token or one without a row; from
\* then on no session row has the token, and validate_session(token)
\* returns None whatever calls were made in between.
C16_LogoutRevokes ==
    [][ /\ Calls("logout")
           => /\ sessions' = sessions \ RowsOf(call'.token)
              /\ users' = users
              /\ call'.token = <<>> \/ RowsOf(call'.token) = {} => sessions' = sessions
        /\ Calls("validate_session") /\ call'.token \in revoked
           => result'.user = NoUser
        /\ \A s \in sessions' : s.token \notin revoked' ]_vars

(***************************************************************************)
(* C17                                                                     *)
(***************************************************************************)
\* the token of login k is the one of the last login of its user
LastOfUser(k) == \A j \in (k + 1)..Len(logins) : logins[j] # logins[k]

\* C17: a successful login returns a token no session had, deletes every
\* session of the user and stores one session for the token returned; so in
\* every state each user has at most one session row, and a token that
\* validates is the one of the last login of its user.
C17_OneSessionPerUser ==
    [][ /\ Calls("login") /\ result'.ok
           => /\ result'.user.token \notin { s.token : s \in sessions }
              /\ sessions' =
                    { s \in sessions : s.user_id # result'.user.id }
                    \cup { [ user_id |-> result'.user.id,
                             token |-> result'.user.token,
                             expires_at |-> IsoFormat(now + SESSION_EXPIRY_DAYS) ] }
        /\ \A u \in 1..Len(users') :
              Cardinality({ s \in sessions' : s.user_id = u }) <= 1
        /\ Calls("validate_session") /\ result'.user # NoUser
           => \E k \in 1..Len(logins) :
                 token_hex(k) = call'.token /\ LastOfUser(k) ]_vars

\* the token of an earlier login of a user who has logged in again was
\* presented, without any logout or expiry: it has no row
C17_Witness ==
    /\ call.op = "validate_session" /\ result.at = "no row"
    /\ call.token \notin revoked
    /\ \E k \in 1..Len(logins) : token_hex(k) = call.token /\ ~LastOfUser(k)

(***************************************************************************)
(* C18                                                                     *)
(***************************************************************************)
\* the arguments pass the checks signup makes before it opens the database
FieldsValid(c) ==
    /\ c.full_name # <<>> /\ c.email # <<>> /\ c.password # <<>>
    /\ Len(c.password) >= 6
    /\ Contains(c.email, <<"@">>) /\ Contains(c.email, <<".">>)

\* C18: signup with an email that, trimmed and lower-cased, is the email of
\* an existing user fails and leaves users unchanged, with the message
\* "already exists" when the fields are valid; signup with a missing field,
\* a password shorter than 6 characters or an email without "@" or "."
\* fails and leaves users unchanged; so no two users ever share an email.
C18_SignupUnique ==
    [][ /\ Calls("signup")
           => /\ UsersWithEmail(users, Lower(Strip(call'.email))) # {}
                 => /\ ~result'.ok
                    /\ users' = users
                    /\ FieldsValid(call')
                          => result'.message = "An account with this email already exists."
              /\ ~FieldsValid(call') => ~result'.ok /\ users' = users
        /\ \A a, b \in 1..Len(users') :
              a # b => Lower(Strip(users'[a].email)) # Lower(Strip(users'[b].email)) ]_vars

(***************************************************************************)
(* C19                                                                     *)
(***************************************************************************)
\* the strings an entry can be matched by: its test_name and its aliases
FormsOf(bench) == {bench.test_name} \cup { bench.aliases[k] : k \in 1..Len(bench.aliases) }

\* a string of an entry matches in the given pass a name of which lowered is
\* the lower-cased, stripped form and normalized the normalized one
FormMatches(pass, lowered, normalized, form) ==
    CASE pass = 1 -> Lower(form) = lowered
      [] pass = 2 -> _normalize_name(form) = normalized
      [] pass = 3 -> LET f == _normalize_name(form) IN
                     Contains(normalized, f) \/ Contains(f, normalized)

\* the entries of the list that match the name in the given pass
MatchesInPass(pass, lowered, normalized, benchs) ==
    { i \in 1..Len(benchs) :
        \E form \in FormsOf(benchs[i]) : FormMatches(pass, lowered, normalized, form) }

\* the entries that match in the pass that returns: the first pass in which
\* some entry matches
MatchesInDecidingPass(lowered, normalized, benchs) ==
    LET m1 == MatchesInPass(1, lowered, normalized, benchs)
        m2 == MatchesInPass(2, lowered, normalized, benchs)
    IN  IF m1 # {} THEN m1 ELSE IF m2 # {} THEN m2
        ELSE MatchesInPass(3, lowered, normalized, benchs)

\* r is the smallest index of the entries that match in the pass that returns
FirstInPass(r, matching) ==
    matching # {} => r \in matching /\ \A i \in matching : r <= i

\* C19: the entry a call of find_benchmark returns is the one with the
\* smallest list index among the entries that match the name in the pass
\* that returns; when two entries match in that pass, by test_name or by
\* alias, the earlier one is returned.
C19_FirstInListOrder ==
    [][pc = "resolve" =>
        \A nm \in DOMAIN found' \ DOMAIN found :
          FirstInPass(found'[nm],
                      MatchesInDecidingPass(Strip(Lower(nm)), _normalize_name(nm), benchmarks))]_vars

\* a name was looked up that both entries of the list match in the pass that
\* returns, the second or the third, and none matches in an earlier pass; the
\* first entry was returned
C19_Witness ==
    /\ pc = "resolve"
    /\ Len(benchmarks) = 2
    /\ \E nm \in DOMAIN found :
          /\ MatchesInPass(1, Strip(Lower(nm)), _normalize_name(nm), benchmarks) = {}
          /\ MatchesInDecidingPass(Strip(Lower(nm)), _normalize_name(nm), benchmarks) = {1, 2}
          /\ found[nm] = 1

(***************************************************************************)
(* C20                                                                     *)
(***************************************************************************)
\* C20: a result with a value and exactly one bound has, when only the high
\* bound is there, status HIGH if the value is above it and NORMAL otherwise
\* (never LOW), and when only the low bound is there, status LOW if the value
\* is below it and NORMAL otherwise (never HIGH).
C20_OneBound ==
    \A i \in 1..Len(compared) :
        LET e == compared[i] IN
        /\ (IsNum(e.value) /\ IsNum(e.benchmark_high) /\ ~IsNum(e.benchmark_low)) =>
              /\ e.status = IF Val(e.value) > Val(e.benchmark_high) THEN "HIGH" ELSE "NORMAL"
              /\ e.status # "LOW"
        /\ (IsNum(e.value) /\ IsNum(e.benchmark_low) /\ ~IsNum(e.benchmark_high)) =>
              /\ e.status = IF Val(e.value) < Val(e.benchmark_low) THEN "LOW" ELSE "NORMAL"
              /\ e.status # "HIGH"

\* the loop has classified a value above its only bound, a high one, as HIGH
\* and a value above its only bound, a low one, as NORMAL
C20_Witness ==
    /\ pc = "compared"
    /\ \E i, j \in 1..Len(compared) :
          /\ IsNum(compared[i].value)
          /\ IsNum(compared[i].benchmark_high) /\ ~IsNum(compared[i].benchmark_low)
          /\ Val(compared[i].value) > Val(compared[i].benchmark_high)
          /\ compared[i].status = "HIGH"
          /\ IsNum(compared[j].value)
          /\ IsNum(compared[j].benchmark_low) /\ ~IsNum(compared[j].benchmark_high)
          /\ Val(compared[j].value) > Val(compared[j].benchmark_low)
          /\ compared[j].status = "NORMAL"

(***************************************************************************)
(* C21, C22                                                                *)
(***************************************************************************)
\* the index of the entry resolved for the i-th test, 0 when there is none
ResolvedFor(i) == find_benchmark(extracted_tests[i].test_name, benchmarks)

\* the result e of a test that resolved to entry bench reports the entry's
\* low and high, and has the status of every earlier result with a
\* benchmark, the same value and the same bounds
FromEntryOnly(e, bench, earlier) ==
    /\ e.benchmark = bench.test_name
    /\ e.benchmark_low = bench.low
    /\ e.benchmark_high = bench.high
    /\ \A j \in 1..Len(earlier) :
          ( /\ earlier[j].benchmark # None
            /\ earlier[j].value = e.value
            /\ earlier[j].benchmark_low = bench.low
            /\ earlier[j].benchmark_high = bench.high )
          => earlier[j].status = e.status

\* the result e of a test, b being the index of the entry it resolved to
ResolvedResult(e, b, earlier) ==
    b # 0 => FromEntryOnly(e, benchmarks[b], earlier)

\* C21: a result whose test resolved to an entry reports that entry's low
\* and high as its bounds, whatever its reference text, also when the entry
\* has neither bound; two such results with the same value and entries with
\* the same low and high have the same status, so two tests that differ only
\* in ref_range_text get the same status and bounds.
C21_ResolvedIgnoresRefText ==
    [][Len(compared') = Len(compared) + 1 =>
         ResolvedResult(compared'[Len(compared')], ResolvedFor(Len(compared')), compared)]_vars

\* two tests that differ only in ref_range_text resolved to an entry without
\* bounds; the text of one of them gives bounds against which its value is
\* low; both results are NORMAL and without bounds
C21_Witness ==
    /\ pc = "compared"
    /\ \E i, j \in 1..Len(compared) :
          /\ ResolvedFor(i) # 0
          /\ ~IsNum(benchmarks[ResolvedFor(i)].low) /\ ~IsNum(benchmarks[ResolvedFor(i)].high)
          /\ compared[i].test_name = compared[j].test_name
          /\ compared[i].value = compared[j].value /\ IsNum(compared[i].value)
          /\ compared[i].unit = compared[j].unit
          /\ compared[j].ref_range_text = <<>>
          /\ Truthy(compared[i].ref_range_text)
          /\ IsNum(_parse_ref_range(compared[i].ref_range_text)[1])
          /\ Val(compared[i].value) < Val(_parse_ref_range(compared[i].ref_range_text)[1])
          /\ compared[i].status = "NORMAL" /\ compared[j].status = "NORMAL"
          /\ ~IsNum(compared[i].benchmark_low) /\ ~IsNum(compared[i].benchmark_high)

\* the result e of a test that resolved to no entry
UnresolvedResult(e) ==
    /\ e.benchmark = None
    /\ e.category = "Uncategorized"
    /\ e.description = ""
    /\ <<e.benchmark_low, e.benchmark_high>>
          = IF e.ref_range_text # None /\ e.ref_range_text # <<>> /\ IsNum(e.value)
            THEN _parse_ref_range(e.ref_range_text)
            ELSE <<NoNum, NoNum>>

\* C22: a result whose test resolved to no entry has benchmark None,
\* category "Uncategorized" and an empty description; its bounds are those
\* _parse_ref_range returns for its reference text when that text is not
\* empty and the value is there, and both None otherwise.
C22_UnresolvedUsesRefText ==
    [][(Len(compared') = Len(compared) + 1 /\ ResolvedFor(Len(compared')) = 0) =>
         UnresolvedResult(compared'[Len(compared')])]_vars

\* of two unresolved tests, one with a value got the bounds of its reference
\* text and one without a value, whose text holds a range, got none
C22_Witness ==
    /\ pc = "compared"
    /\ \E i, j \in 1..Len(compared) :
          /\ ResolvedFor(i) = 0 /\ ResolvedFor(j) = 0
          /\ IsNum(compared[i].value)
          /\ IsNum(compared[i].benchmark_low) /\ IsNum(compared[i].benchmark_high)
          /\ ~IsNum(compared[j].value)
          /\ Truthy(compared[j].ref_range_text)
          /\ IsNum(_parse_ref_range(compared[j].ref_range_text)[1])
          /\ ~IsNum(compared[j].benchmark_low) /\ ~IsNum(compared[j].benchmark_high)

(***************************************************************************)
(* C23                                                                     *)
(***************************************************************************)
\* the candidates met that come from text lines
FromText == { h \in 1..Len(encountered) : encountered[h].from[1] = "text" }

\* C23: in a run that has returned, a merged line gave at most one
\* candidate, kept or dropped as a duplicate, and the candidate comes from
\* the first pattern of LINE_PATTERNS that matches the line: no pattern
\* before the one it was built from matches.
C23_FirstMatchingPattern ==
    pc = "done" =>
      /\ \A h, i \in FromText :
            encountered[h].from[2] = encountered[i].from[2] => h = i
      /\ \A h \in FromText :
            \A k \in 1..(encountered[h].from[3] - 1) :
               PatternSearch(k, merged[encountered[h].from[2]].line) = NoMatch

(***************************************************************************)
(* C24                                                                     *)
(***************************************************************************)
\* the name is shorter than 2 characters or, lower-cased and trimmed, a word
\* of the stoplist
RejectedName(nm) == Len(nm) < 2 \/ Strip(Lower(nm)) \in INVALID_NAMES

\* C24: no candidate of pdfplumber_parse, from the table pass or the text
\* pass, has a test_name shorter than 2 characters or one that, lower-cased
\* and trimmed, is in INVALID_NAMES; this holds for the list as it is built
\* and for the list returned.
C24_NoRejectedName ==
    /\ \A j \in 1..Len(results) : ~RejectedName(results[j].test_name)
    /\ pc = "done" => \A j \in 1..Len(returned) : ~RejectedName(returned[j].test_name)

\* a run has returned candidates of both passes after the table pass read a
\* row with a number and a stoplist name, and the text pass a line on which a
\* pattern matches with a stoplist name
C24_Witness ==
    /\ pc = "done"
    /\ \E i, j \in 1..Len(returned) : origin[i][1] = "table" /\ origin[j][1] = "text"
    /\ \E at \in examined :
          \E r \in (HeaderRowOf(TableAt(at)) + 1)..Len(TableAt(at)) :
             /\ RowTruthy(TableAt(at)[r])
             /\ Strip(Lower(safe(TableAt(at)[r], ColumnsOf(TableAt(at)).name))) \in INVALID_NAMES
             /\ HasDigit(safe(TableAt(at)[r], ColumnsOf(TableAt(at)).value))
    /\ \E k \in 1..Len(merged) :
          /\ ReachedCascade(k)
          /\ \E p \in 1..5 :
                /\ PatternSearch(p, merged[k].line) # NoMatch
                /\ Lower(CleanName(PatternSearch(p, merged[k].line).name)) \in INVALID_NAMES

(***************************************************************************)
(* C25                                                                     *)
(***************************************************************************)
\* line i of lns, trimmed, is not empty, holds no digit and is not
\* skippable, and the line after it holds a digit
NameThenNumber(lns, i) ==
    /\ i < Len(lns)
    /\ Strip(lns[i]) # <<>>
    /\ \A q \in 1..Len(lns[i]) : ~IsDigit(lns[i][q])
    /\ ~_should_skip(Strip(lns[i]))
    /\ \E q \in 1..Len(lns[i + 1]) : IsDigit(lns[i + 1][q])

\* mg is the merge of lns: its entries take the lines one after the other,
\* each line once, two lines at a time joined by two blanks exactly where a
\* line without digit is followed by a line with one
MergeOf(mg, lns) ==
    /\ mg # <<>> /\ mg[1].first = 1
    /\ \A k \in 1..Len(mg) :
          /\ mg[k].joined <=> NameThenNumber(lns, mg[k].first)
          /\ mg[k].line = IF mg[k].joined
                          THEN Strip(lns[mg[k].first]) \o <<" ", " ">>
                                  \o Strip(lns[mg[k].first + 1])
                          ELSE Strip(lns[mg[k].first])
          /\ (IF k < Len(mg) THEN mg[k + 1].first ELSE Len(lns) + 1)
                = mg[k].first + (IF mg[k].joined THEN 2 ELSE 1)
    /\ \A i \in 1..Len(lns) :
          NameThenNumber(lns, i) <=> \E k \in 1..Len(mg) : mg[k].joined /\ mg[k].first = i

\* C25: the merged sequence the text pass builds takes the trimmed lines
\* from left to right, each exactly once and in order; line i is joined with
\* line i+1 by two blanks exactly when line i is not empty, holds no digit
\* and is not skippable and line i+1 holds a digit; a line joined to the one
\* before it is neither an entry of its own nor the first half of a pair.
C25_SinglePassMerge ==
    [][(pc = "text" /\ pc' = "lines") => MergeOf(merged', lines')]_vars

\* the text has been merged: a pair was joined, and a line without digit
\* that is not skippable was left alone before a line without digit
C25_Witness ==
    /\ pc = "lines"
    /\ \E k \in 1..Len(merged) : merged[k].joined
    /\ \E k \in 1..Len(merged) :
          /\ ~merged[k].joined /\ merged[k].first < Len(lines)
          /\ ~HasDigit(lines[merged[k].first]) /\ ~_should_skip(Strip(lines[merged[k].first]))
          /\ ~HasDigit(lines[merged[k].first + 1])

(***************************************************************************)
(* C26                                                                     *)
(***************************************************************************)
\* some cell of the row holds, lower-cased, one of the words that mark the
\* name column
Labelled(row) ==
    /\ row # NoneRow
    /\ \E c \in 1..Len(row) :
          /\ row[c] # None /\ row[c] # <<>>
          /\ \E k \in NameKeywords : Contains(Lower(row[c]), k)

\* the header of a table, as a 1-based index: the first labelled row, the
\* first row of the table when no row is labelled
FirstLabelled(table) ==
    IF \E r \in 1..Len(table) : Labelled(table[r])
    THEN CHOOSE r \in 1..Len(table) :
            Labelled(table[r]) /\ \A q \in 1..(r - 1) : ~Labelled(table[q])
    ELSE 1

\* C26: every candidate the table pass appends comes from a table of at
\* least 2 rows and from a row strictly after the header of that table, the
\* header being the first row with a cell that holds test, parameter,
\* investigation, name or analyte, or the first row of the table when there
\* is no such row; the header row and the rows before it give no candidate.
C26_RowsAfterHeader ==
    [][pc = "tables" =>
         \A j \in (Len(results) + 1)..Len(results') :
            /\ origin'[j][1] = "table"
            /\ Len(pages[origin'[j][2]].tables[origin'[j][3]]) >= 2
            /\ origin'[j][4] > FirstLabelled(pages[origin'[j][2]].tables[origin'[j][3]])]_vars

\* the table pass has read a table whose header is not its first row, a row
\* before the header has a name and a number, and a row after the header
\* gave a candidate; and it has read a table without labelled row whose
\* second row gave a candidate
C26_Witness ==
    /\ pc = "text"
    /\ \E at \in examined :
          /\ FirstLabelled(TableAt(at)) > 1
          /\ Len(TableAt(at)[1][1]) >= 2 /\ HasDigit(TableAt(at)[1][2])
          /\ \E j \in 1..Len(results) :
                /\ origin[j][1] = "table" /\ <<origin[j][2], origin[j][3]>> = at
                /\ origin[j][4] > FirstLabelled(TableAt(at))
    /\ \E at \in examined :
          /\ \A r \in 1..Len(TableAt(at)) : ~Labelled(TableAt(at)[r])
          /\ CandidatesFrom(RowOrigin(at, 2)) # {}

(***************************************************************************)
(* C27                                                                     *)
(***************************************************************************)
\* C27: for the list compare_with_benchmarks returned, get_summary_stats
\* gives a total equal to the length of the list, normal + low + high equal
\* to the total and unknown equal to 0, and leaves the list as it was.
C27_SummaryStats ==
    [][pc' = "summarized" =>
         /\ stats'.total = Len(compared)
         /\ stats'.normal + stats'.low + stats'.high = stats'.total
         /\ stats'.unknown = 0
         /\ compared' = compared]_vars

\* the statistics of a list with a LOW and a HIGH result
C27_Witness ==
    /\ pc = "summarized"
    /\ stats.total = 2 /\ stats.low = 1 /\ stats.high = 1
    /\ \E i, j \in 1..Len(compared) :
          compared[i].status = "LOW" /\ compared[j].status = "HIGH"

(***************************************************************************)
(* C28                                                                     *)
(***************************************************************************)
\* every character of the name is whitespace or one of the characters that
\* normalization replaces by a space
OnlyStripped(nm) == \A i \in 1..Len(nm) : IsSpace(nm[i]) \/ nm[i] \in NamePunct

\* C28: find_benchmark returns no entry only when the list is empty or no
\* entry matches the name in any pass; for a name that is empty or made only
\* of whitespace and stripped punctuation, and that no entry matches in the
\* exact or the normalized pass, every entry matches in the fuzzy pass and,
\* on a non-empty list, the first entry of the list is returned.
C28_EmptyNormalizedName ==
    pc = "lookup" =>
      \A nm \in DOMAIN found :
        LET lowered == Strip(Lower(nm))
            normalized == _normalize_name(nm)
        IN  /\ found[nm] = 0 =>
                 \/ benchmarks = <<>>
                 \/ \A pass \in 1..3 : MatchesInPass(pass, lowered, normalized, benchmarks) = {}
            /\ ( /\ OnlyStripped(nm)
                 /\ MatchesInPass(1, lowered, normalized, benchmarks) = {}
                 /\ MatchesInPass(2, lowered, normalized, benchmarks) = {} )
               => /\ MatchesInPass(3, lowered, normalized, benchmarks) = 1..Len(benchmarks)
                  /\ benchmarks # <<>> => found[nm] = 1

\* a name made only of stripped punctuation was looked up on a list of two
\* entries, neither of which matches it exactly or by normalized form, and
\* the first entry was returned
C28_Witness ==
    /\ pc = "lookup"
    /\ Len(benchmarks) = 2
    /\ \E nm \in DOMAIN found :
          /\ nm # <<>>
          /\ OnlyStripped(nm)
          /\ MatchesInPass(1, Strip(Lower(nm)), _normalize_name(nm), benchmarks) = {}
          /\ MatchesInPass(2, Strip(Lower(nm)), _normalize_name(nm), benchmarks) = {}
          /\ found[nm] = 1

(***************************************************************************)
(* C29                                                                     *)
(***************************************************************************)
\* a user is stored with this email and this password
CorrectCredentials(rows, email, password) ==
    \E u \in 1..Len(rows) : /\ rows[u].email = Lower(Strip(email))
                            /\ rows[u].password_hash = _hash_password(password)

\* the tokens that validate
Validating(rows, sess, held, t) ==
    { token \in Presented : validate_session(rows, sess, held, token, t).result.ok }

\* C29: a call of login that fails returns failure and changes neither the
\* users nor the sessions, so every token that validated before the call
\* validates after it; a call of login removes a session only when its
\* email and password are those of a stored user.
C29_FailedLoginChangesNothing ==
    [][(call = NoCall /\ call'.op = "login") =>
         /\ ~CorrectCredentials(users, call'.email, call'.password) => ~result'.ok
         /\ ~result'.ok =>
               /\ users' = users /\ sessions' = sessions
               /\ Validating(users, sessions, locked, now)
                    \subseteq Validating(users', sessions', locked', now')
         /\ sessions \ sessions' # {} =>
               /\ result'.ok
               /\ CorrectCredentials(users, call'.email, call'.password)]_vars

\* a login with the wrong password of an account has failed while a token of
\* that account validates
C29_Witness ==
    /\ pc = "auth"
    /\ call.op = "login" /\ ~result.ok
    /\ call.email # <<>> /\ call.password # <<>>
    /\ \E u \in 1..Len(users) :
          /\ users[u].email = Lower(Strip(call.email))
          /\ users[u].password_hash # _hash_password(call.password)
          /\ \E token \in Validating(users, sessions, locked, now) :
                \E row \in sessions : row.token = token /\ row.user_id = u

(***************************************************************************)
(* app.py: the Streamlit script.  Every page load and every interaction    *)
(* runs the script from the top: the session-state defaults, the restore   *)
(* of the session from the query parameter, the auth gate, and then        *)
(* either the login or signup page or the dashboard.  st.rerun() ends the  *)
(* run and starts another.  session_state lives as long as the browser     *)
(* session; a page load starts a new one with the query parameter of the   *)
(* address.                                                                *)
(***************************************************************************)
\* st.session_state of a new browser session: no key is set.  The user None
\* is written NoUser.
NoState == <<>>

\* "if ... not in st.session_state" for logged_in, user and auth_page
Defaults(ss) ==
    IF ss = NoState THEN [ logged_in |-> FALSE, user |-> NoUser, auth_page |-> "login" ]
    ELSE ss

\* a slip: a token in the address logs in, whatever validate_session returns
RestoreUnchecked(ss, saved_token, out) ==
    IF ~ss.logged_in /\ saved_token # <<>>
    THEN [ ss EXCEPT !.logged_in = TRUE,
                     !.user = IF out.result.ok THEN out.result.user ELSE NoUser ]
    ELSE ss

\* the restore of the session from the query parameter; out is what
\* validate_session(saved_token) gives
Restore(ss, saved_token, out) ==
    IF ~ss.logged_in /\ saved_token # <<>> /\ out.result.ok
    THEN [ ss EXCEPT !.logged_in = TRUE, !.user = out.result.user ]
    ELSE ss

\* the script from its top to the auth gate: the session state and the
\* sessions table it leaves
Started ==
    LET ss == Defaults(session_state)
        out == validate_session(users, sessions, locked, query_params, now)
    IN  [ state |-> Restore(ss, query_params, out),
          sessions |-> IF ~ss.logged_in /\ query_params # <<>> THEN out.sessions
                       ELSE sessions ]

\* the part of the page a run got to, and the user it was run for
Shown(part, user) == [ part |-> part, user |-> user ]

\* the part the script gets to when no widget is triggered: past the gate
\* the dashboard, before it the page auth_page names
Landing(ss) ==
    IF ss.logged_in THEN Shown("dashboard", ss.user) ELSE Shown(ss.auth_page, NoUser)

\* the login form: emails and passwords typed
LoginForms ==
    { <<Chars("a@b.c"), Chars("secret")>>,
      <<Chars("d@e.f"), Chars("secret")>>,
      <<Chars("a@b.c"), Chars("hunter2")>>,
      <<<<>>, Chars("secret")>> }

\* the signup form: full name, email, password and its confirmation
SignupForms ==
    { <<Chars("Al"), Chars("a@b.c"), Chars("secret"), Chars("secret")>>,
      <<Chars("Al"), Chars(" A@B.c "), Chars("secret"), Chars("secret")>>,
      <<Chars("Bo"), Chars("d@e.f"), Chars("secret"), Chars("secret")>>,
      <<Chars("Bo"), Chars("d@e.f"), Chars("secret"), Chars("secre7")>> }

InitApp ==
    /\ pc = "app"
    /\ users = <<>> /\ sessions = {}
    /\ now = 0 /\ locked = FALSE
    /\ logins = <<>> /\ revoked = {}
    /\ call = NoCall
    /\ result = NoResult
    /\ session_state = NoState
    /\ query_params = <<>>
    /\ rendered = Shown("", NoUser)
    /\ rerun = TRUE
    /\ NormalizeIdle /\ ResolveIdle /\ RangeIdle /\ CompareIdle /\ ParseIdle
    /\ LoadIdle /\ ConcurrentIdle /\ SummaryIdle

AppUnchanged ==
    UNCHANGED <<normalizeVars, resolveVars, rangeVars, compareVars, parseVars,
                loadVars, concurrentVars, summaryVars, now, locked, revoked, call, result>>

\* the address is opened or reloaded, with the query parameter it has or
\* with one typed into it: a new browser session
OpenPage ==
    /\ pc = "app"
    /\ \E token \in Presented \cup {query_params} : query_params' = token
    /\ session_state' = NoState
    /\ rendered' = Shown("", NoUser)
    /\ rerun' = TRUE
    /\ UNCHANGED <<pc, users, sessions, logins>>
    /\ AppUnchanged

\* a run of the script in which no button or form of the login and signup
\* pages and no Logout is triggered: the run of a page load, the run
\* st.rerun() starts, or a run for another widget
ScriptRun ==
    /\ pc = "app"
    /\ session_state' = Started.state
    /\ sessions' = Started.sessions
    /\ rendered' = Landing(Started.state)
    /\ rerun' = FALSE
    /\ UNCHANGED <<pc, users, logins, query_params>>
    /\ AppUnchanged

\* show_login, the form submitted
SubmitLogin ==
    /\ pc = "app"
    /\ ~rerun /\ rendered.part = "login"
    /\ Len(logins) < MaxTokens
    /\ Landing(Started.state).part = "login"
    /\ \E form \in LoginForms :
          LET out == login(users, Started.sessions, locked, form[1], form[2],
                           token_hex(Len(logins) + 1), now)
          IN  /\ sessions' = out.sessions
              /\ session_state' = IF out.result.ok
                                  THEN [ Started.state EXCEPT !.logged_in = TRUE,
                                                              !.user = out.result.user ]
                                  ELSE Started.state
              /\ query_params' = IF out.result.ok THEN out.result.user.token
                                 ELSE query_params
              /\ logins' = IF out.result.ok THEN Append(logins, out.result.user.id)
                           ELSE logins
              /\ rerun' = out.result.ok
    /\ rendered' = Shown("login", NoUser)
    /\ UNCHANGED <<pc, users>>
    /\ AppUnchanged

\* show_login, the button "Create Account"
ClickCreateAccount ==
    /\ pc = "app"
    /\ ~rerun /\ rendered.part = "login"
    /\ Landing(Started.state).part = "login"
    /\ session_state' = [ Started.state EXCEPT !.auth_page = "signup" ]
    /\ sessions' = Started.sessions
    /\ rendered' = Shown("login", NoUser)
    /\ rerun' = TRUE
    /\ UNCHANGED <<pc, users, logins, query_params>>
    /\ AppUnchanged

\* show_signup, the form submitted
SubmitSignup ==
    /\ pc = "app"
    /\ ~rerun /\ rendered.part = "signup"
    /\ Landing(Started.state).part = "signup"
    /\ \E form \in SignupForms :
          IF form[3] # form[4]
          THEN /\ users' = users /\ locked' = locked
               /\ session_state' = Started.state
               /\ rerun' = FALSE
          ELSE /\ users' = signup(users, locked, form[1], form[2], form[3]).users
               /\ locked' = signup(users, locked, form[1], form[2], form[3]).locked
               /\ session_state' =
                     IF signup(users, locked, form[1], form[2], form[3]).result.ok
                     THEN [ Started.state EXCEPT !.auth_page = "login" ]
                     ELSE Started.state
               /\ rerun' = signup(users, locked, form[1], form[2], form[3]).result.ok
    /\ sessions' = Started.sessions
    /\ rendered' = Shown("signup", NoUser)
    /\ UNCHANGED <<pc, logins, query_params>>
    /\ UNCHANGED <<normalizeVars, resolveVars, rangeVars, compareVars, parseVars,
                   loadVars, concurrentVars, summaryVars, now, revoked, call, result>>

\* show_signup, the button "Back to Login"
ClickBackToLogin ==
    /\ pc = "app"
    /\ ~rerun /\ rendered.part = "signup"
    /\ Landing(Started.state).part = "signup"
    /\ session_state' = [ Started.state EXCEPT !.auth_page = "login" ]
    /\ sessions' = Started.sessions
    /\ rendered' = Shown("signup", NoUser)
    /\ rerun' = TRUE
    /\ UNCHANGED <<pc, users, logins, query_params>>
    /\ AppUnchanged

\* the sidebar of the dashboard, the button "Logout": the run ends at
\* st.rerun(), before the upload, extraction, storage and analysis parts
ClickLogout ==
    /\ pc = "app"
    /\ ~rerun /\ rendered.part = "dashboard"
    /\ Landing(Started.state).part = "dashboard"
    /\ sessions' = logout(Started.sessions, locked, Started.state.user.token)
    /\ query_params' = <<>>
    /\ session_state' = [ logged_in |-> FALSE, user |-> NoUser, auth_page |-> "login" ]
    /\ rendered' = Shown("sidebar", Started.state.user)
    /\ rerun' = TRUE
    /\ UNCHANGED <<pc, users, logins>>
    /\ AppUnchanged

NextApp ==
    \/ OpenPage \/ ScriptRun \/ SubmitLogin \/ ClickCreateAccount \/ SubmitSignup
    \/ ClickBackToLogin \/ ClickLogout \/ Collect \/ Tick

SpecApp == InitApp /\ [][NextApp]_vars

(***************************************************************************)
(* C30                                                                     *)
(***************************************************************************)
\* the record of a stored user with a token that a successful login gave to
\* that user
LoginRecord(u, rows, given) ==
    /\ u # NoUser
    /\ \E k \in 1..Len(given) :
          /\ u.token = token_hex(k)
          /\ given[k] = u.id
          /\ u.id \in 1..Len(rows)
          /\ u.full_name = rows[u.id].full_name
          /\ u.email = rows[u.id].email

\* C30: a run of the script gets to the dashboard only with logged_in true;
\* logged_in is true only beside a user record that is not None and that a
\* successful login, or validate_session for the token of the query
\* parameter, returned; the Logout button leaves logged_in false, user None
\* and no token in the query parameters, and the run that follows shows the
\* login page.
C30_DashboardBehindGate ==
    [][pc = "app" =>
         /\ rendered'.part = "dashboard" =>
               /\ session_state'.logged_in
               /\ rendered'.user = session_state'.user
         /\ (session_state' # NoState /\ session_state'.logged_in) =>
               LoginRecord(session_state'.user, users', logins')
         /\ (session_state' # NoState /\ session_state'.logged_in
               /\ ~Defaults(session_state).logged_in) =>
               \/ /\ query_params # <<>>
                  /\ validate_session(users, sessions, locked, query_params, now).result.ok
                  /\ session_state'.user.token = query_params
               \/ /\ Len(logins') = Len(logins) + 1
                  /\ session_state'.user.token = token_hex(Len(logins'))
                  /\ query_params' = session_state'.user.token
         /\ rendered'.part = "sidebar" =>
               /\ ~session_state'.logged_in
               /\ session_state'.user = NoUser
               /\ query_params' = <<>>
         /\ (rendered.part = "sidebar" /\ rerun /\ ~rerun') =>
               /\ rendered'.part = "login"
               /\ ~session_state'.logged_in]_vars

\* the Logout button was used by a logged-in user while users.db was locked:
\* the row of the session is still stored, and the query parameter is cleared
C30_Witness ==
    /\ pc = "app"
    /\ rendered.part = "sidebar"
    /\ locked
    /\ LoginRecord(rendered.user, users, logins)
    /\ \E row \in sessions : row.token = rendered.user.token
    /\ query_params = <<>>

====
